---- MODULE Spec2Model ----
(***************************************************************************)
(* A model of the ingestion and retrieval code of dungs_poc_streamlit:     *)
(*   - src/src/indexing_pinecone.py        (batch ingestion, "basic")      *)
(*   - src/src/indexing_pinecone_hybrid.py (hybrid ingestion, retry upsert)*)
(*   - src/src/retrieve_hybrid.py          (search)                        *)
(*   - src/src/app.py, src/src/llm_processing.py (answer stream, citations)*)
(* The embedding service and the vector index are collaborators: each of   *)
(* their calls either returns or raises, chosen nondeterministically.      *)
(***************************************************************************)
EXTENDS Integers, Sequences, FiniteSets, TLC

VARIABLES
    prog,       \* which code runs: "basic", "hybrid", "upsert", "search",
                \* "app", "citation", "build_dict", "images", "filter"
    files,      \* the input: one sequence of chunks per JSON file
    index,      \* the vector index: id -> record
    pc,         \* position in the running script
    run,        \* 1 for the first execution of main, 2 for a replay
    fi,         \* basic: number of the file being processed (1-based)
    bi,         \* start offset of the current batch (i of range(0, n, batch_size))
    existing_ids,
    vectors,    \* the vectors process_batch returned for the current batch
    chunks_processed, chunks_skipped,
    total_files_processed, total_chunks_processed, total_chunks_skipped,
    chunk_size, start_idx, attempt, max_retries,    \* upsert_with_retry's locals
    last_try,   \* history: the latest index.upsert call of upsert_with_retry
    call,       \* search: the arguments of the call
    filter_dict, matches, results,      \* search's locals and its return value
    embed_calls, query_calls,           \* collaborator calls made by one call of search
    error,      \* the exception a finished call raised, if any
    faults,     \* collaborator failures injected so far
    events,     \* history of the collaborator calls and printed error reports
    use_llm, show_pdfs,     \* app.main: the two toggles of the sidebar
    response_stream,        \* app.main: the chunks the generator has not yielded yet
    received,   \* history: the chunks the generator yielded so far
    full_response,          \* app.main: the text buffer
    citations,  \* app.main: the value extract_citation returned
    unique_pages,           \* llm_processing: get_unique_pages(results)
    prompt_pages,           \* llm_processing: the page written into the prompt per result
    page_nums,  \* app.main: page_num of every result listed under "RAG Sources"
    input_batch, sparse_emb,    \* build_dict: its argument and its return value
    output_exists, output_files,    \* llm_processing: the shared directory "output"
    output_inode,   \* llm_processing: which directory "output" is, one number per mkdir
    sessions,   \* llm_processing: the invocations of analyze_content_with_llm
    category_to_products,   \* app.main: categories and their documents
    sidebar,    \* app.main: what the user selected and what main made of it
    search_args \* app.main: the filter arguments search was called with

ivars == << prog, files, index, pc, run, fi, bi, existing_ids, vectors,
            chunks_processed, chunks_skipped, total_files_processed,
            total_chunks_processed, total_chunks_skipped,
            chunk_size, start_idx, attempt, max_retries, last_try,
            call, filter_dict, matches, results, embed_calls, query_calls, error,
            faults, events,
            use_llm, show_pdfs, response_stream, received, full_response, citations,
            unique_pages, prompt_pages, page_nums, input_batch, sparse_emb,
            output_exists, output_files, output_inode, sessions,
            category_to_products, sidebar, search_args >>

----------------------------------------------------------------------------
(* Bounds of the model *)

MaxChunks == 3      \* chunks in the whole input
MaxFiles == 2       \* JSON files in the chunk directory
BatchSize == 2      \* batch_size (100 in indexing_pinecone, 50 in the hybrid script), scaled
MaxFaults == 1      \* collaborator failures per behaviour of indexing_pinecone.main
MaxHybridFaults == 3    \* collaborator failures per behaviour of indexing_pinecone_hybrid.main
MaxVectors == 7     \* vectors handed to upsert_with_retry when it is run on its own
MaxTopK == 3        \* largest top_k passed to search
MaxDocs == 3        \* documents in a batch given to build_dict
MaxDocLen == 2      \* tokens in a document given to build_dict
MaxDeltas == 3      \* chunks a response stream yields
MaxPieces == 3      \* pieces a text given to extract_citation is put together from
NumSessions == 2    \* browser sessions that run analyze_content_with_llm at a time
MaxPages == 2       \* unique pages of the results of one session
MaxCalls == 2       \* searches one session makes, one after the other
MaxProducts == 3    \* entries of the product index app.main reads

----------------------------------------------------------------------------
(* Chunks *)

NonAscii == "NA"    \* stands for any character outside ASCII
Space == " "

TextGood == << "p", Space, Space, NonAscii, "v" >>
TextOther == << "q" >>
TextBlank == << Space, NonAscii >>
TextEmpty == << >>

Ids == {"a", "b"}

ChunkShapes ==
    { [type |-> "NarrativeText", text |-> TextGood],
      [type |-> "Title", text |-> TextOther],
      [type |-> "Footer", text |-> TextGood],
      [type |-> "Image", text |-> TextGood],
      [type |-> "NarrativeText", text |-> TextBlank],
      [type |-> "NarrativeText", text |-> TextEmpty] }

ChunkMetadata(id) ==
    [filename |-> "f.pdf", filetype |-> "application/pdf", languages |-> "deu",
     page_number |-> IF id = "a" THEN 3 ELSE 4, product_category |-> "valves"]

Chunks ==
    { [element_id |-> id, type |-> s.type, text |-> s.text, metadata |-> ChunkMetadata(id)] :
        id \in Ids, s \in ChunkShapes }

RECURSIVE SeqsUpTo(_, _)
SeqsUpTo(S, n) ==
    IF n = 0 THEN { << >> }
    ELSE LET shorter == SeqsUpTo(S, n - 1)
         IN shorter \cup { Append(s, x) : s \in { t \in shorter : Len(t) = n - 1 }, x \in S }

\* the ways of cutting the chunk list s into n consecutive files
RECURSIVE Splits(_, _)
Splits(s, n) ==
    IF n = 0 THEN (IF s = << >> THEN { << >> } ELSE {})
    ELSE UNION { { << SubSeq(s, 1, c) >> \o r : r \in Splits(SubSeq(s, c + 1, Len(s)), n - 1) } :
                 c \in 0..Len(s) }

\* The directories the scripts can find: up to MaxFiles files, MaxChunks chunks in all.
Inputs == UNION { Splits(s, n) : s \in SeqsUpTo(Chunks, MaxChunks), n \in 0..MaxFiles }

OldRecord(id) == [id |-> id, values |-> "old", metadata |-> [filename |-> "f.pdf"]]

InitialIndexes == { [i \in D |-> OldRecord(i)] : D \in { {}, {"a"} } }

----------------------------------------------------------------------------
(* indexing_pinecone.py *)

clean_metadata(chunk) ==
    [filename |-> chunk.metadata.filename,
     filetype |-> chunk.metadata.filetype,
     languages |-> chunk.metadata.languages,
     page_number |-> chunk.metadata.page_number]

\* text.encode('ascii', 'ignore').decode('ascii')
AsciiIgnore(text) == SelectSeq(text, LAMBDA c : c # NonAscii)

\* ' '.join(text.split()): runs of whitespace become one space, none at the ends
RECURSIVE CollapseWhitespace(_)
CollapseWhitespace(text) ==
    IF text = << >> THEN << >>
    ELSE IF Head(text) = Space THEN CollapseWhitespace(Tail(text))
    ELSE LET rest == Tail(text)
         IN IF rest = << >> THEN << Head(text) >>
            ELSE IF Head(rest) = Space
                 THEN LET more == CollapseWhitespace(rest)
                      IN IF more = << >> THEN << Head(text) >>
                         ELSE << Head(text), Space >> \o more
                 ELSE << Head(text) >> \o CollapseWhitespace(rest)

NormalizeText(text) == CollapseWhitespace(AsciiIgnore(text))

ExcludedTypes == {"Footer", "Image"}

\* for i in range(0, len(data), batch_size): yield data[i:i + batch_size]
BatchEnd(data, i) == IF i + BatchSize < Len(data) THEN i + BatchSize ELSE Len(data)

\* positions (1-based) of the chunks of the batch starting at offset i
BatchItems(data, i) == [k \in 1..(BatchEnd(data, i) - i) |-> i + k]

RECURSIVE SeqToSet(_)
SeqToSet(s) == IF s = << >> THEN {} ELSE {Head(s)} \cup SeqToSet(Tail(s))

\* batch_ids = [chunk['element_id'] for chunk in batch if chunk.get('element_id')]
BatchIds(data, i) == { data[k].element_id : k \in SeqToSet(BatchItems(data, i)) }

\* check_existing_ids: set(response.vectors.keys()), or set() when fetch raises
check_existing_ids(idx, ids, fetchOk) ==
    IF fetchOk THEN (DOMAIN idx) \cap ids ELSE {}

\* a process_batch that forgets the existing ids
IsNewChunk_IgnoresExisting(chunk, existing) == chunk.type \notin ExcludedTypes

\* new_chunks: not already existing and not of an excluded type
IsNewChunk(chunk, existing) ==
    /\ chunk.element_id \notin existing
    /\ chunk.type \notin ExcludedTypes

\* a process_batch that keeps a chunk whatever its text
IsValidText_Always(chunk) == TRUE

\* valid_chunks: text non-empty, and non-empty after normalisation
IsValidText(chunk) ==
    /\ chunk.text # << >>
    /\ NormalizeText(chunk.text) # << >>

\* positions of valid_chunks, in batch order
ValidItems(data, i, existing) ==
    SelectSeq(BatchItems(data, i),
              LAMBDA k : IsNewChunk(data[k], existing) /\ IsValidText(data[k]))

Embedding(text) == << "emb", text >>

\* lines 90-98: the vector built for a valid chunk and the embedding paired with it
VectorOf(chunk, embedding) ==
    [id |-> chunk.element_id,
     values |-> embedding,
     metadata |-> [filename |-> clean_metadata(chunk).filename,
                   filetype |-> clean_metadata(chunk).filetype,
                   languages |-> clean_metadata(chunk).languages,
                   page_number |-> clean_metadata(chunk).page_number,
                   text |-> chunk.text,
                   type |-> chunk.type]]

\* texts_for_embedding: the normalised text of every valid chunk, in order
TextsForEmbedding(data, items) ==
    [n \in 1..Len(items) |-> NormalizeText(data[items[n]].text)]

\* response.data of client.embeddings.create: one embedding per input, in order
EmbeddingsCreate(texts) == [n \in 1..Len(texts) |-> Embedding(texts[n])]

\* a process_batch that pairs the chunks with the embeddings in reverse order
BuildVectors_Misaligned(data, items, respLen) ==
    LET response == EmbeddingsCreate(TextsForEmbedding(data, items))
    IN [n \in 1..Len(items) |->
          [item |-> items[n],
           vec |-> VectorOf(data[items[n]], response[Len(items) + 1 - n])]]

\* process_batch once the embedding response arrived: one vector per valid
\* chunk that has embedding data (i < len(response.data)), built from
\* valid_chunks[i] and response.data[i]
BuildVectors(data, items, respLen) ==
    LET response == EmbeddingsCreate(TextsForEmbedding(data, items))
    IN [n \in 1..(IF respLen < Len(items) THEN respLen ELSE Len(items)) |->
          [item |-> items[n], vec |-> VectorOf(data[items[n]], response[n])]]

\* index.upsert(vectors=...): insert or overwrite by id, later entries last
RECURSIVE UpsertInto(_, _)
UpsertInto(idx, vecs) ==
    IF vecs = << >> THEN idx
    ELSE LET v == Head(vecs).vec
             dom == (DOMAIN idx) \cup {v.id}
         IN UpsertInto([d \in dom |-> IF d = v.id THEN v ELSE idx[d]], Tail(vecs))

Event(kind, items, ok) ==
    [kind |-> kind, run |-> run, file |-> fi, batch |-> bi, items |-> items,
     ok |-> ok, present |-> DOMAIN index]

CanFail == faults < MaxFaults

None == "None"      \* Python's None

\* the filter argument of index.query: None, or a dict of required metadata values
NoFilter == [is_none |-> TRUE, dict |-> << >>]
DictFilter(d) == [is_none |-> FALSE, dict |-> d]

avars == << use_llm, show_pdfs, response_stream, received, full_response, citations,
           unique_pages, prompt_pages, page_nums >>

\* app.main is not running
AppIdle ==
    /\ use_llm = FALSE /\ show_pdfs = FALSE
    /\ response_stream = << >> /\ received = << >>
    /\ full_response = << >> /\ citations = << >>
    /\ unique_pages = {} /\ prompt_pages = << >> /\ page_nums = << >>

dvars == << input_batch, sparse_emb >>

\* build_dict is not running
BuildIdle == input_batch = << >> /\ sparse_emb = << >>

pvars == << output_exists, output_files, output_inode, sessions >>

\* no invocation of analyze_content_with_llm is running
ImagesIdle ==
    /\ output_exists = FALSE /\ output_files = {} /\ output_inode = 0
    /\ sessions = << >>

fvars == << category_to_products, sidebar, search_args >>

\* main has not drawn the sidebar: nothing selected yet, None for each local
NoSidebar ==
    [selected_category |-> None, selected_display_name |-> << >>,
     selected_file |-> << >>, filter_mode |-> None]

\* search has not been called
NoSearch == [called |-> FALSE, selected_file |-> << >>, selected_category |-> None]

\* the sidebar of app.main is not running
FilterIdle == category_to_products = << >> /\ sidebar = NoSidebar /\ search_args = NoSearch

svars == << call, filter_dict, matches, results, embed_calls, query_calls, error >>

\* search is not running
SearchIdle ==
    /\ call = None /\ filter_dict = NoFilter /\ matches = << >> /\ results = << >>
    /\ embed_calls = 0 /\ query_calls = 0 /\ error = None

uwvars == << chunk_size, start_idx, attempt, max_retries, last_try >>

\* upsert_with_retry has made no index.upsert call
NoTry == [start |-> 0, size |-> 0, attempt |-> 0, outcome |-> "none", slept |-> 0]

\* upsert_with_retry is not running
RetryIdle ==
    /\ chunk_size = 0 /\ start_idx = 0 /\ attempt = 0 /\ max_retries = 0
    /\ last_try = NoTry

\* the for loop over chunks_dir.glob("*.json"): the next file, or the final report
FilePc(f) == IF f > Len(files) THEN "done" ELSE "file"

InitBasic ==
    /\ prog = "basic"
    /\ files \in Inputs
    /\ index \in InitialIndexes
    /\ run = 1
    /\ fi = 1
    /\ pc = FilePc(1)
    /\ bi = 0
    /\ existing_ids = {}
    /\ vectors = << >>
    /\ chunks_processed = 0
    /\ chunks_skipped = 0
    /\ total_files_processed = 0
    /\ total_chunks_processed = 0
    /\ total_chunks_skipped = 0
    /\ faults = 0
    /\ events = << >>
    /\ RetryIdle
    /\ SearchIdle
    /\ AppIdle /\ BuildIdle /\ ImagesIdle /\ FilterIdle

\* lines 167-169: the file's counts join the totals once all its batches are done
CompleteFile(processed, skipped) ==
    /\ total_chunks_processed' = total_chunks_processed + processed
    /\ total_chunks_skipped' = total_chunks_skipped + skipped
    /\ total_files_processed' = total_files_processed + 1
    /\ fi' = fi + 1
    /\ pc' = FilePc(fi + 1)
    /\ bi' = 0

\* lines 172-174: except Exception: print "Error processing file", continue
AbortFile ==
    /\ fi' = fi + 1
    /\ pc' = FilePc(fi + 1)
    /\ bi' = 0
    /\ UNCHANGED << total_chunks_processed, total_chunks_skipped, total_files_processed >>

\* lines 132-142: open and read the next JSON file
BOpenFile ==
    /\ prog = "basic" /\ pc = "file"
    /\ \/ /\ files[fi] # << >>
          /\ pc' = "check"
          /\ bi' = 0
          /\ chunks_processed' = 0
          /\ chunks_skipped' = 0
          /\ UNCHANGED << fi, total_chunks_processed, total_chunks_skipped,
                          total_files_processed, faults, events >>
       \/ /\ files[fi] = << >>
          /\ chunks_processed' = 0
          /\ chunks_skipped' = 0
          /\ CompleteFile(0, 0)
          /\ UNCHANGED << faults, events >>
       \/ /\ CanFail
          /\ faults' = faults + 1
          /\ events' = Append(events, Event("file_error", << >>, FALSE))
          /\ AbortFile
          /\ UNCHANGED << chunks_processed, chunks_skipped >>
    /\ UNCHANGED uwvars
    /\ UNCHANGED svars
    /\ UNCHANGED << avars, dvars, pvars, fvars >>
    /\ UNCHANGED << prog, files, index, run, existing_ids, vectors >>

\* lines 146-153: the existence lookup of the batch
BCheckExisting ==
    /\ prog = "basic" /\ pc = "check"
    /\ \E fetchOk \in BOOLEAN :
          /\ fetchOk \/ CanFail
          /\ faults' = IF fetchOk THEN faults ELSE faults + 1
          /\ existing_ids' = check_existing_ids(index, BatchIds(files[fi], bi), fetchOk)
          /\ chunks_skipped' = chunks_skipped + Cardinality(existing_ids')
          /\ events' = Append(events, Event("fetch", BatchItems(files[fi], bi), fetchOk))
    /\ pc' = "process"
    /\ UNCHANGED uwvars
    /\ UNCHANGED svars
    /\ UNCHANGED << avars, dvars, pvars, fvars >>
    /\ UNCHANGED << prog, files, index, run, fi, bi, vectors, chunks_processed,
                    total_files_processed, total_chunks_processed, total_chunks_skipped >>

\* line 156, process_batch (lines 40-104)
BProcessBatch ==
    /\ prog = "basic" /\ pc = "process"
    /\ LET items == ValidItems(files[fi], bi, existing_ids)
       IN \/ /\ items = << >>                   \* returns [] before any embedding call
             /\ vectors' = << >>
             /\ UNCHANGED << faults, events >>
          \/ /\ items # << >>                   \* client.embeddings.create returns
             /\ vectors' = BuildVectors(files[fi], items, Len(items))
             /\ events' = Append(events, Event("embed", items, TRUE))
             /\ UNCHANGED faults
          \/ /\ items # << >>                   \* it raises: "Error processing batch", []
             /\ CanFail
             /\ faults' = faults + 1
             /\ vectors' = << >>
             /\ events' = Append(events, Event("embed", items, FALSE))
    /\ pc' = "upsert"
    /\ UNCHANGED uwvars
    /\ UNCHANGED svars
    /\ UNCHANGED << avars, dvars, pvars, fvars >>
    /\ UNCHANGED << prog, files, index, run, fi, bi, existing_ids, chunks_processed,
                    chunks_skipped, total_files_processed, total_chunks_processed,
                    total_chunks_skipped >>

\* a batch loop that goes from one batch straight to process_batch of the next
NextBatch_SkipsCheck(processed) ==
    IF bi + BatchSize < Len(files[fi])
    THEN /\ bi' = bi + BatchSize
         /\ pc' = "process"
         /\ UNCHANGED << fi, total_chunks_processed, total_chunks_skipped,
                         total_files_processed >>
    ELSE CompleteFile(processed, chunks_skipped)

\* the end of one pass of the batch loop: the next batch, or the file is complete
NextBatch(processed) ==
    IF bi + BatchSize < Len(files[fi])
    THEN /\ bi' = bi + BatchSize
         /\ pc' = "check"
         /\ UNCHANGED << fi, total_chunks_processed, total_chunks_skipped,
                         total_files_processed >>
    ELSE CompleteFile(processed, chunks_skipped)

VectorItems(vecs) == [n \in 1..Len(vecs) |-> vecs[n].item]

\* lines 158-165: upsert the vectors of the batch, if any
BUpsert ==
    /\ prog = "basic" /\ pc = "upsert"
    /\ \/ /\ vectors = << >>
          /\ NextBatch(chunks_processed)
          /\ UNCHANGED << index, chunks_processed, faults, events >>
       \/ /\ vectors # << >>
          /\ index' = UpsertInto(index, vectors)
          /\ chunks_processed' = chunks_processed + Len(vectors)
          /\ events' = Append(events, Event("upsert", VectorItems(vectors), TRUE))
          /\ NextBatch(chunks_processed + Len(vectors))
          /\ UNCHANGED faults
       \/ /\ vectors # << >>                    \* index.upsert raises
          /\ CanFail
          /\ faults' = faults + 1
          /\ events' = Append(events, Event("upsert", VectorItems(vectors), FALSE))
          /\ AbortFile
          /\ UNCHANGED << index, chunks_processed >>
    /\ vectors' = << >>
    /\ existing_ids' = {}
    /\ UNCHANGED uwvars
    /\ UNCHANGED svars
    /\ UNCHANGED << avars, dvars, pvars, fvars >>
    /\ UNCHANGED << prog, files, run, chunks_skipped >>

\* main is run again over the same directory and the index it left
BRerun ==
    /\ prog = "basic" /\ pc = "done" /\ run = 1
    /\ run' = 2
    /\ fi' = 1
    /\ pc' = FilePc(1)
    /\ bi' = 0
    /\ chunks_processed' = 0
    /\ chunks_skipped' = 0
    /\ total_files_processed' = 0
    /\ total_chunks_processed' = 0
    /\ total_chunks_skipped' = 0
    /\ UNCHANGED uwvars
    /\ UNCHANGED svars
    /\ UNCHANGED << avars, dvars, pvars, fvars >>
    /\ UNCHANGED << prog, files, index, existing_ids, vectors, faults, events >>

NextBasic == BOpenFile \/ BCheckExisting \/ BProcessBatch \/ BUpsert \/ BRerun

SpecBasic == InitBasic /\ [][NextBasic]_ivars

----------------------------------------------------------------------------
(* indexing_pinecone_hybrid.py *)

InitialChunkSize == 50
DefaultMaxRetries == 3

\* load_and_prepare_data: all_chunks.extend(chunks) for every file
RECURSIVE Flatten(_)
Flatten(fs) == IF fs = << >> THEN << >> ELSE Head(fs) \o Flatten(Tail(fs))

\* filename.replace('.pdf', '').replace('_', ' ')
DisplayName(filename) == IF filename = "f.pdf" THEN "f" ELSE filename

\* prepare_chunk_text: f"Document {filename}: {original_text}"
prepare_chunk_text(chunk) ==
    << "Document", DisplayName(chunk.metadata.filename), ":" >> \o chunk.text

\* the sparse vector generate_sparse_vectors returns for texts[n]: the tokens of
\* that text, weighted by build_dict against all the texts of the call
SparseOf(texts, n) == << "sparse", texts[n], texts >>

\* lines 124-134: the record assembled for one triple of the zip
HybridVectorOf(chunk, dense_vec, sparse_vec) ==
    [id |-> chunk.element_id,
     values |-> dense_vec,
     sparse_values |-> sparse_vec,
     metadata |-> [filename |-> chunk.metadata.filename,
                   page_number |-> chunk.metadata.page_number,
                   text |-> chunk.text,
                   text_with_filename |-> prepare_chunk_text(chunk)]]

\* line 113: texts = [prepare_chunk_text(chunk) for chunk in batch]
HybridTexts(data, i) == [k \in 1..(BatchEnd(data, i) - i) |-> prepare_chunk_text(data[i + k])]

\* generate_sparse_vectors(texts, tokenizer): one sparse vector per text, in order
GenerateSparseVectors(texts) == [n \in 1..Len(texts) |-> SparseOf(texts, n)]

\* a process_batch that pairs the chunks with the dense and the sparse
\* vectors in reverse order
HybridBuildVectors_Misaligned(data, i) ==
    LET texts == HybridTexts(data, i)
        dense_vectors == EmbeddingsCreate(texts)
        sparse_vectors == GenerateSparseVectors(texts)
    IN [k \in 1..Len(texts) |->
          [item |-> i + k,
           vec |-> HybridVectorOf(data[i + k], dense_vectors[Len(texts) + 1 - k],
                                  sparse_vectors[Len(texts) + 1 - k])]]

\* process_batch: zip(batch, dense_vectors, sparse_vectors)
HybridBuildVectors(data, i) ==
    LET texts == HybridTexts(data, i)
        dense_vectors == EmbeddingsCreate(texts)
        sparse_vectors == GenerateSparseVectors(texts)
    IN [k \in 1..Len(texts) |->
          [item |-> i + k,
           vec |-> HybridVectorOf(data[i + k], dense_vectors[k], sparse_vectors[k])]]

\* the chunks the hybrid script is run on: load_and_prepare_data takes every
\* chunk of every file, whatever its type and text
HybridChunks == Chunks

HybridInputs == UNION { Splits(s, n) : s \in SeqsUpTo(HybridChunks, MaxChunks), n \in 0..MaxFiles }

HybridPc(i) == IF i < Len(Flatten(files)) THEN "hbatch" ELSE "done"

InitHybrid ==
    /\ prog = "hybrid"
    /\ files \in HybridInputs
    /\ index \in InitialIndexes
    /\ run = 1
    /\ fi = 1
    /\ bi = 0
    /\ pc = HybridPc(0)
    /\ existing_ids = {}
    /\ vectors = << >>
    /\ chunks_processed = 0
    /\ chunks_skipped = 0
    /\ total_files_processed = 0
    /\ total_chunks_processed = 0
    /\ total_chunks_skipped = 0
    /\ faults = 0
    /\ events = << >>
    /\ RetryIdle
    /\ SearchIdle
    /\ AppIdle /\ BuildIdle /\ ImagesIdle /\ FilterIdle

\* a collaborator call of the hybrid script may fail while the budget lasts; the
\* calls of upsert_with_retry run on its own may fail without limit
MayFail == prog = "upsert" \/ faults < MaxHybridFaults
FaultsAfter == IF prog = "upsert" THEN faults ELSE faults + 1

\* the for loop of main, lines 182-199: the next batch or the final statistics
HybridAdvance ==
    /\ bi' = bi + BatchSize
    /\ pc' = HybridPc(bi + BatchSize)
    /\ vectors' = << >>
    /\ chunk_size' = 0 /\ start_idx' = 0 /\ attempt' = 0 /\ max_retries' = 0

\* lines 186-188 and process_batch: embed the batch and assemble its vectors
HProcessBatch ==
    /\ prog = "hybrid" /\ pc = "hbatch"
    /\ LET data == Flatten(files)
           items == BatchItems(data, bi)
       IN \/ /\ vectors' = HybridBuildVectors(data, bi)      \* embed_documents returns
             /\ events' = Append(events, Event("embed", items, TRUE))
             /\ pc' = "uw_loop"
             /\ chunk_size' = InitialChunkSize
             /\ start_idx' = 0
             /\ attempt' = 0
             /\ max_retries' = DefaultMaxRetries
             /\ last_try' = NoTry
             /\ UNCHANGED << bi, faults >>
          \/ /\ MayFail                                       \* it raises: lines 196-199
             /\ faults' = FaultsAfter
             /\ events' = Append(Append(events, Event("embed", items, FALSE)),
                                 Event("batch_error", items, FALSE))
             /\ HybridAdvance
             /\ UNCHANGED last_try
    /\ UNCHANGED svars
    /\ UNCHANGED << avars, dvars, pvars, fvars >>
    /\ UNCHANGED << prog, files, index, run, fi, existing_ids, chunks_processed,
                    chunks_skipped, total_files_processed, total_chunks_processed,
                    total_chunks_skipped >>

\* end_idx = min(start_idx + chunk_size, len(vectors))
EndIdx == IF start_idx + chunk_size < Len(vectors) THEN start_idx + chunk_size ELSE Len(vectors)

\* where the caller continues once upsert_with_retry returned
UwReturn ==
    IF prog = "hybrid"
    THEN HybridAdvance
    ELSE pc' = "returned"
         /\ UNCHANGED << bi, vectors, chunk_size, start_idx, attempt, max_retries >>

\* where the caller continues once upsert_with_retry raised
UwRaise ==
    IF prog = "hybrid"
    THEN HybridAdvance
    ELSE pc' = "raised"
         /\ UNCHANGED << bi, vectors, chunk_size, start_idx, attempt, max_retries >>

\* line 89: while start_idx < len(vectors), and the start of the for loop
UwLoop ==
    /\ prog \in {"hybrid", "upsert"} /\ pc = "uw_loop"
    /\ \/ /\ start_idx < Len(vectors)
          /\ pc' = "uw_try"
          /\ attempt' = 0
          /\ UNCHANGED << bi, vectors, chunk_size, start_idx, max_retries >>
       \/ /\ start_idx >= Len(vectors)
          /\ UwReturn
    /\ UNCHANGED svars
    /\ UNCHANGED << avars, dvars, pvars, fvars >>
    /\ UNCHANGED << prog, files, index, run, fi, existing_ids, chunks_processed,
                    chunks_skipped, total_files_processed, total_chunks_processed,
                    total_chunks_skipped, faults, events, last_try >>

\* an upsert_with_retry that takes one vector off the sub-batch
ReducedSize_MinusOne(size) == size - 1

\* chunk_size = max(1, chunk_size // 2)
ReducedSize(size) == IF size \div 2 > 1 THEN size \div 2 ELSE 1

\* an upsert_with_retry that resumes one past the end of the slice it sent
AfterSuccess_SkipsOne(end_idx) == end_idx + 1

\* start_idx after a successful upsert of vectors[start_idx:end_idx]
AfterSuccess(end_idx) == end_idx

\* an upsert_with_retry that sleeps one second after every failure
Backoff_Constant(n) == 1

\* time.sleep(2 ** attempt)
Backoff(n) == 2 ^ n

\* the exceptions index.upsert can raise for a slice of the size: one whose
\* message holds "Request size", or any other
UpsertErrors == {"size", "other"}

\* line 100: the error is answered by a smaller sub-batch
IsSizeReduction(err, size) == err = "size" /\ size > 1

\* the index.upsert call being made, with how it ended and the sleep after it
Try(outcome, slept) ==
    [start |-> start_idx, size |-> chunk_size, attempt |-> attempt,
     outcome |-> outcome, slept |-> slept]

\* lines 93-108: one attempt of the for loop
UwTry ==
    /\ prog \in {"hybrid", "upsert"} /\ pc = "uw_try"
    /\ LET batch == SubSeq(vectors, start_idx + 1, EndIdx)
       IN \/ /\ attempt < max_retries              \* index.upsert returns
             /\ index' = UpsertInto(index, batch)
             /\ events' = Append(events, Event("upsert", VectorItems(batch), TRUE))
             /\ start_idx' = AfterSuccess(EndIdx)
             /\ pc' = "uw_loop"
             /\ last_try' = Try("ok", 0)
             /\ UNCHANGED << bi, vectors, chunk_size, attempt, max_retries, faults >>
          \/ /\ attempt < max_retries              \* "Request size" error, size > 1
             /\ MayFail
             /\ IsSizeReduction("size", chunk_size)
             /\ faults' = FaultsAfter
             /\ chunk_size' = ReducedSize(chunk_size)
             /\ pc' = "uw_loop"
             /\ last_try' = Try("size", 0)
             /\ UNCHANGED << bi, vectors, index, start_idx, attempt, max_retries, events >>
          \/ /\ attempt < max_retries              \* any other error: retry after a sleep
             /\ MayFail
             /\ attempt < max_retries - 1
             /\ \E err \in UpsertErrors :
                   /\ ~IsSizeReduction(err, chunk_size)
                   /\ last_try' = Try(err, Backoff(attempt))
             /\ faults' = FaultsAfter
             /\ attempt' = attempt + 1
             /\ UNCHANGED << bi, vectors, index, pc, chunk_size, start_idx, max_retries, events >>
          \/ /\ attempt < max_retries              \* any other error on the last attempt
             /\ MayFail
             /\ attempt >= max_retries - 1
             /\ \E err \in UpsertErrors :
                   /\ ~IsSizeReduction(err, chunk_size)
                   /\ last_try' = Try(err, 0)
             /\ faults' = FaultsAfter
             /\ events' = IF prog = "hybrid"
                          THEN Append(events, Event("batch_error", VectorItems(vectors), FALSE))
                          ELSE events
             /\ UwRaise
             /\ UNCHANGED index
          \/ /\ attempt >= max_retries             \* range(max_retries) is exhausted
             /\ pc' = "uw_loop"
             /\ UNCHANGED << bi, vectors, index, uwvars, faults, events >>
    /\ UNCHANGED svars
    /\ UNCHANGED << avars, dvars, pvars, fvars >>
    /\ UNCHANGED << prog, files, run, fi, existing_ids, chunks_processed,
                    chunks_skipped, total_files_processed, total_chunks_processed,
                    total_chunks_skipped >>

NextHybrid == HProcessBatch \/ UwLoop \/ UwTry

SpecHybrid == InitHybrid /\ [][NextHybrid]_ivars

\* upsert_with_retry run on its own, on a list of n vectors with distinct ids
TestVectors(n) ==
    [k \in 1..n |-> [item |-> k, vec |-> [id |-> ToString(k), values |-> << "emb", k >>]]]

InitUpsert ==
    /\ prog = "upsert"
    /\ files = << >>
    /\ index = << >>
    /\ run = 1
    /\ fi = 1
    /\ bi = 0
    /\ pc = "uw_loop"
    /\ existing_ids = {}
    /\ vectors \in { TestVectors(n) : n \in 0..MaxVectors }
    /\ chunks_processed = 0
    /\ chunks_skipped = 0
    /\ total_files_processed = 0
    /\ total_chunks_processed = 0
    /\ total_chunks_skipped = 0
    /\ faults = 0
    /\ events = << >>
    /\ chunk_size = InitialChunkSize
    /\ start_idx = 0
    /\ attempt = 0
    /\ max_retries \in 0..DefaultMaxRetries
    /\ last_try = NoTry
    /\ SearchIdle
    /\ AppIdle /\ BuildIdle /\ ImagesIdle /\ FilterIdle

NextUpsert == UwLoop \/ UwTry

SpecUpsert == InitUpsert /\ [][NextUpsert]_ivars

----------------------------------------------------------------------------
(* retrieve_hybrid.py *)

NotPassed == "NotPassed"    \* a keyword argument the caller leaves out

DefaultAlpha == "0.5"

\* Python values a page number is held as, to the tenth: an int, a float or None
PyInt(n) == [kind |-> "int", tenths |-> 10 * n]
PyFloat(t) == [kind |-> "float", tenths |-> t]
PyNone == [kind |-> "None", tenths |-> 0]

\* float(v) raises TypeError for None
FloatRaises(v) == v.kind = "None"

FloatError(v) == "TypeError"

\* int(float(v)), for v that float accepts: int() truncates towards zero
IntOfFloat(v) == IF v.tenths >= 0 THEN v.tenths \div 10 ELSE -((-v.tenths) \div 10)

\* the index search runs against: which records it holds, and the score each
\* has for the query.  The index returns numbers as floats; "d" is a chunk
\* that had no page_number when process_batch read it with .get('page_number')
SearchCorpus ==
    { [id |-> "a", score |-> 9,
       metadata |-> [filename |-> "f.pdf", text |-> "ta", page_number |-> PyFloat(30),
                     product_category |-> "valves"]],
      [id |-> "b", score |-> 7,
       metadata |-> [filename |-> "f.pdf", text |-> "tb", product_category |-> "valves"]],
      [id |-> "c", score |-> 7,
       metadata |-> [filename |-> "g.pdf", text |-> "tc", page_number |-> PyFloat(27),
                     product_category |-> "pumps"]],
      [id |-> "d", score |-> 4,
       metadata |-> [filename |-> "g.pdf", text |-> "td", page_number |-> PyNone,
                     product_category |-> "pumps"]] }

SearchIndex == [i \in { r.id : r \in SearchCorpus } |-> CHOOSE r \in SearchCorpus : r.id = i]

\* the index's metadata filter: every key of the filter equals the record's value
Satisfies(record, filter) ==
    \/ filter.is_none
    \/ \A key \in DOMAIN filter.dict :
          key \in DOMAIN record.metadata /\ record.metadata[key] = filter.dict[key]

NonIncreasing(ms) == \A i \in 1..(Len(ms) - 1) : ms[i].score >= ms[i + 1].score

\* index.query(vector, filter, top_k): at most top_k distinct records that
\* satisfy the filter, best first (ties in any order)
IndexAnswers(idx, filter, k) ==
    LET hits == { idx[i] : i \in { j \in DOMAIN idx : Satisfies(idx[j], filter) } }
    IN { ms \in SeqsUpTo(hits, k) :
            /\ \A i, j \in 1..Len(ms) : i # j => ms[i] # ms[j]
            /\ NonIncreasing(ms) }

\* line 27: {"filename": selected_file} if selected_file else None
FilterOf(selected_file) ==
    IF selected_file # None /\ selected_file # ""
    THEN DictFilter([filename |-> selected_file])
    ELSE NoFilter

\* lines 39-44: the result built for one match
ResultOf(match) ==
    [text |-> match.metadata.text,
     source |-> match.metadata.filename,
     score |-> match.score,
     page |-> IF "page_number" \in DOMAIN match.metadata
              THEN match.metadata.page_number ELSE PyInt(1)]

\* a search that returns its results in the reverse of the index's order
MapMatches_Reversed(ms) == [i \in 1..Len(ms) |-> ResultOf(ms[Len(ms) + 1 - i])]

\* lines 38-46: [ {...} for match in results['matches'] ]
MapMatches(ms) == [i \in 1..Len(ms) |-> ResultOf(ms[i])]

FileArgs == {None, "", "f.pdf", "g.pdf", "x.pdf"}
CategoryArgs == {NotPassed, None, "valves"}

InitSearch ==
    /\ prog = "search"
    /\ files = << >>
    /\ index = SearchIndex
    /\ run = 1
    /\ fi = 1
    /\ bi = 0
    /\ pc = "call"
    /\ existing_ids = {}
    /\ vectors = << >>
    /\ chunks_processed = 0
    /\ chunks_skipped = 0
    /\ total_files_processed = 0
    /\ total_chunks_processed = 0
    /\ total_chunks_skipped = 0
    /\ faults = 0
    /\ events = << >>
    /\ RetryIdle
    /\ AppIdle /\ BuildIdle /\ ImagesIdle /\ FilterIdle
    /\ call \in [query : {"q"}, selected_file : FileArgs, selected_category : CategoryArgs,
                 top_k : 1..MaxTopK, alpha : {DefaultAlpha}]
    /\ filter_dict = NoFilter
    /\ matches = << >>
    /\ results = << >>
    /\ embed_calls = 0
    /\ query_calls = 0
    /\ error = None

singest == << files, index, run, fi, bi, existing_ids, vectors, chunks_processed,
              chunks_skipped, total_files_processed, total_chunks_processed,
              total_chunks_skipped, faults, events >>

\* line 22: the arguments are bound to search's parameters; app.py lines 294-301
\* pass selected_category, which search does not declare
SBind ==
    /\ prog = "search" /\ pc = "call"
    /\ \/ /\ call.selected_category = NotPassed
          /\ pc' = "embed"
          /\ UNCHANGED error
       \/ /\ call.selected_category # NotPassed
          /\ pc' = "raised"
          /\ error' = "TypeError"
    /\ UNCHANGED << prog, call, filter_dict, matches, results, embed_calls, query_calls >>
    /\ UNCHANGED uwvars
    /\ UNCHANGED singest
    /\ UNCHANGED << avars, dvars, pvars, fvars >>

\* a search that asks again for the embedding when embed_documents raised
AfterEmbedFailure_Retry == "embed"

\* where search continues when embed_documents raised: nothing catches it
AfterEmbedFailure == "raised"

\* lines 24-27: the dense vector of the query, then the filter
SEmbed ==
    /\ prog = "search" /\ pc = "embed"
    /\ embed_calls' = embed_calls + 1
    /\ \/ /\ filter_dict' = FilterOf(call.selected_file)
          /\ pc' = "query"
          /\ UNCHANGED error
       \/ /\ pc' = AfterEmbedFailure
          /\ error' = IF AfterEmbedFailure = "raised" THEN "EmbeddingError" ELSE error
          /\ UNCHANGED filter_dict
    /\ UNCHANGED << prog, call, matches, results, query_calls >>
    /\ UNCHANGED uwvars
    /\ UNCHANGED singest
    /\ UNCHANGED << avars, dvars, pvars, fvars >>

\* lines 30-46: the index query and the result list
SQuery ==
    /\ prog = "search" /\ pc = "query"
    /\ query_calls' = query_calls + 1
    /\ \/ \E ms \in IndexAnswers(index, filter_dict, call.top_k) :
             /\ matches' = ms
             /\ results' = MapMatches(ms)
             /\ pc' = "returned"
             /\ UNCHANGED error
       \/ /\ pc' = "raised"
          /\ error' = "IndexQueryError"
          /\ UNCHANGED << matches, results >>
    /\ UNCHANGED << prog, call, filter_dict, embed_calls >>
    /\ UNCHANGED uwvars
    /\ UNCHANGED singest
    /\ UNCHANGED << avars, dvars, pvars, fvars >>

NextSearch == SBind \/ SEmbed \/ SQuery

SpecSearch == InitSearch /\ [][NextSearch]_ivars

----------------------------------------------------------------------------
(* app.py: extract_citation *)

\* A text is a sequence of tokens: single characters, and the words "Page",
\* "Seite" and "page" taken whole.
Newline == "\n"

Whitespace == {Space, Newline}

Digits == {"0", "1", "2"}

Keywords == {"Page", "Seite"}

DigitValue(d) == IF d = "0" THEN 0 ELSE IF d = "1" THEN 1 ELSE 2

\* int(page) of the digits text[from..to]
RECURSIVE IntOf(_, _, _)
IntOf(text, from, to) ==
    IF to < from THEN 0
    ELSE 10 * IntOf(text, from, to - 1) + DigitValue(text[to])

\* \s* from position i: the first position at or after i that holds no whitespace
RECURSIVE SkipSpaces(_, _)
SkipSpaces(text, i) ==
    IF i <= Len(text) /\ text[i] \in Whitespace THEN SkipSpaces(text, i + 1) ELSE i

\* \d+ from position i: the first position at or after i that holds no digit
RECURSIVE SkipDigits(_, _)
SkipDigits(text, i) ==
    IF i <= Len(text) /\ text[i] \in Digits THEN SkipDigits(text, i + 1) ELSE i

\* ,\s*(?:Page|Seite)\s*(\d+)\] tried at position j
TailMatch(text, j) ==
    LET k == SkipSpaces(text, j + 1)
        d == SkipSpaces(text, k + 1)
        e == SkipDigits(text, d)
    IN [ok |-> /\ j <= Len(text) /\ text[j] = ","
               /\ k <= Len(text) /\ text[k] \in Keywords
               /\ e > d
               /\ e <= Len(text) /\ text[e] = "]",
        digits |-> d, end |-> e]

\* (.*?) from position j: the first position of a "," that the rest of the
\* pattern matches at, reached over characters other than the newline; 0 if none
RECURSIVE LazyFilenameEnd(_, _)
LazyFilenameEnd(text, j) ==
    IF j > Len(text) THEN 0
    ELSE IF TailMatch(text, j).ok THEN j
    ELSE IF text[j] = Newline THEN 0
    ELSE LazyFilenameEnd(text, j + 1)

\* the pattern tried at position i
MatchAt(text, i) ==
    LET j == IF text[i] = "[" THEN LazyFilenameEnd(text, i + 1) ELSE 0
    IN IF j = 0
       THEN [ok |-> FALSE, filename |-> << >>, page |-> << >>, end |-> i]
       ELSE [ok |-> TRUE,
             filename |-> SubSeq(text, i + 1, j - 1),
             page |-> SubSeq(text, TailMatch(text, j).digits, TailMatch(text, j).end - 1),
             end |-> TailMatch(text, j).end]

\* re.findall(pattern, text): the non-overlapping matches, leftmost first
RECURSIVE FindAllFrom(_, _)
FindAllFrom(text, i) ==
    IF i > Len(text) THEN << >>
    ELSE IF MatchAt(text, i).ok
         THEN << << MatchAt(text, i).filename, MatchAt(text, i).page >> >>
                 \o FindAllFrom(text, MatchAt(text, i).end + 1)
         ELSE FindAllFrom(text, i + 1)

FindAll(text) == FindAllFrom(text, 1)

\* line 170: citation = (filename, int(page))
CitationOf(m) == << m[1], IntOf(m[2], 1, Len(m[2])) >>

\* an extractor that appends every match, seen before or not
NotSeen_Always(citation, seen) == TRUE

\* line 171: if citation not in seen
NotSeen(citation, seen) == citation \notin seen

\* lines 166-173: the loop over the matches
RECURSIVE UniqueCitations(_, _)
UniqueCitations(ms, seen) ==
    IF ms = << >> THEN << >>
    ELSE IF NotSeen(CitationOf(Head(ms)), seen)
         THEN << CitationOf(Head(ms)) >>
                 \o UniqueCitations(Tail(ms), seen \cup {CitationOf(Head(ms))})
         ELSE UniqueCitations(Tail(ms), seen)

extract_citation(text) == UniqueCitations(FindAll(text), {})

\* pieces the texts are put together from
MarkerF1 == << "[", "f", ",", Space, "Page", Space, "1", "]" >>
MarkerF1Seite == << "[", "f", ",", Space, "Seite", Space, "1", "]" >>
MarkerF01 == << "[", "f", ",", "Page", "0", "1", "]" >>
MarkerG12 == << "[", "g", ",", Newline, "Page", "1", "2", "]" >>
MarkerF0 == << "[", "f", ",", Space, "Page", Space, "0", "]" >>
MarkerLower == << "[", "f", ",", Space, "page", Space, "1", "]" >>
Note == << "[", "n", "]" >>
Words == << "x", Space >>
MarkerOpen == << "[", "f", "," >>
MarkerClose == << Space, "Page", Space, "2", "]" >>

Pieces == {MarkerF1, MarkerF1Seite, MarkerF01, MarkerG12, MarkerF0, MarkerLower,
           Note, Words, << Newline >>, MarkerOpen, MarkerClose}

RECURSIVE Concat(_)
Concat(ps) == IF ps = << >> THEN << >> ELSE Head(ps) \o Concat(Tail(ps))

Texts == { Concat(ps) : ps \in SeqsUpTo(Pieces, MaxPieces) }

InitCitation ==
    /\ prog = "citation"
    /\ pc = "call"
    /\ files = << >> /\ index = << >> /\ run = 1 /\ fi = 1 /\ bi = 0
    /\ existing_ids = {} /\ vectors = << >>
    /\ chunks_processed = 0 /\ chunks_skipped = 0
    /\ total_files_processed = 0 /\ total_chunks_processed = 0
    /\ total_chunks_skipped = 0
    /\ faults = 0 /\ events = << >>
    /\ RetryIdle /\ SearchIdle /\ BuildIdle /\ ImagesIdle /\ FilterIdle
    /\ use_llm = FALSE /\ show_pdfs = TRUE
    /\ response_stream = << >> /\ received = << >>
    /\ full_response \in Texts
    /\ citations = << >>
    /\ unique_pages = {} /\ prompt_pages = << >> /\ page_nums = << >>

\* lines 160-175
CExtract ==
    /\ prog = "citation" /\ pc = "call"
    /\ citations' = extract_citation(full_response)
    /\ pc' = "returned"
    /\ UNCHANGED << use_llm, show_pdfs, response_stream, received, full_response,
                    unique_pages, prompt_pages, page_nums >>
    /\ UNCHANGED << prog, singest, uwvars, svars, dvars, pvars, fvars >>

NextCitation == CExtract

SpecCitation == InitCitation /\ [][NextCitation]_ivars

----------------------------------------------------------------------------
(* app.py and llm_processing.py: pages and the response stream *)

\* a chunk of the response stream: its content is a text or None
ContentChunk(text) == [content_is_none |-> FALSE, content |-> text]
NoneChunk == [content_is_none |-> TRUE, content |-> << >>]

StreamChunks == { ContentChunk(t) : t \in {MarkerF1, MarkerG12, MarkerOpen, MarkerClose, Words} }
                    \cup {NoneChunk}

\* the first result whose page float() refuses, 0 if there is none
RECURSIVE FirstBadPage(_, _)
FirstBadPage(rs, i) ==
    IF i > Len(rs) THEN 0
    ELSE IF FloatRaises(rs[i].page) THEN i
    ELSE FirstBadPage(rs, i + 1)

\* llm_processing.py lines 16-21
get_unique_pages(rs) == { << rs[i].source, IntOfFloat(rs[i].page) >> : i \in 1..Len(rs) }

\* llm_processing.py lines 91-92: the page written into the prompt for each result
PromptPages(rs) == [i \in 1..Len(rs) |-> IntOfFloat(rs[i].page)]

\* a buffer that puts each new delta in front of the text
AppendDelta_Prepend(buffer, content) == content \o buffer

\* line 325: full_response += chunk.content
AppendDelta(buffer, content) == buffer \o content

----------------------------------------------------------------------------
(* indexing_pinecone_hybrid.py: build_dict *)

SpecialTokens == {0, 1, 2}

K1Halves == 3       \* k1 = 1.5, in halves
BQuarters == 3      \* b = 0.75, in quarters

TokenIds == {1, 5, 6}

\* a tokenized document: its input ids
Docs == SeqsUpTo(TokenIds, MaxDocLen)

\* doc_freq[token_id]: the documents of the batch that hold the token
DocFreq(batch, token_id) ==
    Cardinality({ d \in 1..Len(batch) : token_id \in SeqToSet(batch[d]) })

\* sum(len(doc) for doc in input_batch)
RECURSIVE SumLen(_)
SumLen(batch) == IF batch = << >> THEN 0 ELSE Len(Head(batch)) + SumLen(Tail(batch))

\* Counter(token_ids)[token_id]
TermFreq(token_ids, token_id) ==
    Cardinality({ k \in 1..Len(token_ids) : token_ids[k] = token_id })

\* the keys of Counter(token_ids), in the order in which each token comes first
RECURSIVE DistinctTokens(_, _)
DistinctTokens(token_ids, seen) ==
    IF token_ids = << >> THEN << >>
    ELSE IF Head(token_ids) \in seen THEN DistinctTokens(Tail(token_ids), seen)
    ELSE << Head(token_ids) >> \o DistinctTokens(Tail(token_ids), seen \cup {Head(token_ids)})

\* a builder that takes no token id for a special token
IsSpecial_Never(token_id) == FALSE

\* line 42: token_id in {0, 1, 2}
IsSpecial(token_id) == token_id \in SpecialTokens

\* lines 46-47: idf = max(0.0, log(num / den)), kept as the fraction the
\* logarithm is taken of: (total_docs - df + 0.5) / (df + 0.5)
Idf(total_docs, df) == [num |-> 2 * (total_docs - df) + 1, den |-> 2 * df + 1]

\* max(0.0, log(x)) is 0.0 exactly when x <= 1
IdfIsZero(idf) == idf.num <= idf.den

\* lines 48-49: (tf * (k1 + 1)) / (tf + k1 * (1 - b + b * doc_length / avg_doc_length))
\* with avg_doc_length = total_length / total_docs, as a fraction of integers
TfWeight(tf, doc_length, total_length, total_docs) ==
    [num |-> 4 * tf * (K1Halves + 2) * total_length,
     den |-> 8 * tf * total_length + K1Halves * (4 - BQuarters) * total_length
                + K1Halves * BQuarters * doc_length * total_docs]

\* bm25_score = idf * weight
BM25(batch, token_ids, token_id) ==
    [idf |-> Idf(Len(batch), DocFreq(batch, token_id)),
     weight |-> TfWeight(TermFreq(token_ids, token_id), Len(token_ids),
                         SumLen(batch), Len(batch))]

\* the product is 0.0 exactly when the idf is: the weight is positive
ScoreIsZero(score) == IdfIsZero(score.idf)

\* lines 34-54: the sparse vector of one document of the batch
SparseVector(batch, token_ids) ==
    LET kept == SelectSeq(DistinctTokens(token_ids, {}), LAMBDA t : ~IsSpecial(t))
    IN [indices |-> kept,
        values |-> [k \in 1..Len(kept) |-> BM25(batch, token_ids, kept[k])]]

\* lines 19-56, for a batch that is not empty
build_dict(batch) == [d \in 1..Len(batch) |-> SparseVector(batch, batch[d])]

InitBuildDict ==
    /\ prog = "build_dict"
    /\ pc = "call"
    /\ files = << >> /\ index = << >> /\ run = 1 /\ fi = 1 /\ bi = 0
    /\ existing_ids = {} /\ vectors = << >>
    /\ chunks_processed = 0 /\ chunks_skipped = 0
    /\ total_files_processed = 0 /\ total_chunks_processed = 0
    /\ total_chunks_skipped = 0
    /\ faults = 0 /\ events = << >>
    /\ RetryIdle /\ SearchIdle /\ AppIdle /\ ImagesIdle /\ FilterIdle
    /\ input_batch \in SeqsUpTo(Docs, MaxDocs)
    /\ sparse_emb = << >>

\* lines 19-56; line 32 divides by len(input_batch)
DBuild ==
    /\ prog = "build_dict" /\ pc = "call"
    /\ IF Len(input_batch) = 0
       THEN /\ pc' = "raised"
            /\ error' = "ZeroDivisionError"
            /\ UNCHANGED sparse_emb
       ELSE /\ pc' = "returned"
            /\ sparse_emb' = build_dict(input_batch)
            /\ UNCHANGED error
    /\ UNCHANGED << prog, singest, uwvars, avars, input_batch, call, filter_dict,
                    matches, results, embed_calls, query_calls >>
    /\ UNCHANGED << pvars, fvars >>

NextBuildDict == DBuild

SpecBuildDict == InitBuildDict /\ [][NextBuildDict]_ivars

----------------------------------------------------------------------------
(* retrieve_hybrid.py: search when the index does not answer *)

\* line 30: index.query is called with no timeout argument and the index
\* never answers: the call neither returns nor raises
SNoResponse ==
    /\ prog = "search" /\ pc = "query"
    /\ query_calls' = query_calls + 1
    /\ pc' = "waiting"
    /\ UNCHANGED << prog, call, filter_dict, matches, results, embed_calls, error >>
    /\ UNCHANGED uwvars
    /\ UNCHANGED singest
    /\ UNCHANGED << avars, dvars, pvars, fvars >>

NextSearchLive == NextSearch \/ SNoResponse

\* search takes every step it can take
SpecSearchLive == InitSearch /\ [][NextSearchLive]_ivars /\ WF_ivars(NextSearchLive)

----------------------------------------------------------------------------
(* llm_processing.py: the page images of concurrent sessions *)

\* the (filename, page) pairs get_unique_pages can return
ResultPages == { [filename |-> "f.pdf", page |-> 1], [filename |-> "g.pdf", page |-> 2] }

\* Path(pdf_path).stem
Stem(filename) == IF filename = "f.pdf" THEN "f" ELSE "g"

\* line 134: f"{output_dir}/{pdf_name}_page_{page_number}.png"
ImagePath(p) == << "output", Stem(p.filename), "_page_", p.page, ".png" >>

\* the lists of distinct pages of at most MaxPages entries, in any order
PageLists ==
    { l \in SeqsUpTo(ResultPages, MaxPages) :
        \A i, j \in 1..Len(l) : i # j => l[i] # l[j] }

NoImage == << >>

\* the two public analyze_content_with_llm of the repository: the one of
\* llm_processing.py clears the directory first (lines 36-39), the one of
\* get_pdf_content.py (lines 22-44) goes straight to the loop over the pages
Modules == {"llm_processing", "get_pdf_content"}

\* the for loop over unique_pages: the next page, or the prompt after the loop
LoopPc(pages) == IF pages = << >> THEN "prompt" ELSE "page_mkdir"

\* an invocation that has not run its first statement on the directory;
\* orig_st and fd are the directory rmtree saw at lstat and the one it
\* opened, entries the names it listed and has not unlinked yet
NewSession(module, pages, calls) ==
    [module |-> module, calls |-> calls,
     pc |-> IF module = "llm_processing" THEN "exists" ELSE LoopPc(pages),
     pages |-> pages, image_path |-> NoImage, page_contents |-> 0,
     orig_st |-> 0, fd |-> 0, entries |-> {},
     raised_in |-> None, exception |-> None]

NewSessions == { NewSession(m, l, 1) : m \in Modules, l \in PageLists }

InitImages ==
    /\ prog = "images"
    /\ pc = "sessions"
    /\ files = << >> /\ index = << >> /\ run = 1 /\ fi = 1 /\ bi = 0
    /\ existing_ids = {} /\ vectors = << >>
    /\ chunks_processed = 0 /\ chunks_skipped = 0
    /\ total_files_processed = 0 /\ total_chunks_processed = 0
    /\ total_chunks_skipped = 0
    /\ faults = 0 /\ events = << >>
    /\ RetryIdle /\ SearchIdle /\ AppIdle /\ BuildIdle /\ FilterIdle
    /\ output_exists \in BOOLEAN
    /\ output_inode = (IF output_exists THEN 1 ELSE 0)
    /\ output_files \in (IF output_exists
                         THEN SUBSET { ImagePath(p) : p \in ResultPages }
                         ELSE { {} })
    /\ sessions \in [1..NumSessions -> NewSessions]

iother == << prog, pc, singest, uwvars, svars, avars, dvars, fvars >>

odir == << output_exists, output_inode, output_files >>

\* the exception leaves analyze_content_with_llm: its locals are gone
Raised(s, where, exception) ==
    [sessions EXCEPT ![s] = [NewSession(sessions[s].module, << >>, sessions[s].calls)
                                EXCEPT !.pc = "raised", !.raised_in = where,
                                       !.exception = exception]]

\* shutil.rmtree has returned: its locals are gone
AfterRmtree(s) ==
    [sessions EXCEPT ![s].pc = "mkdir", ![s].orig_st = 0, ![s].fd = 0]

\* os.mkdir makes a new, empty directory "output"
CreateOutput ==
    /\ output_exists' = TRUE
    /\ output_inode' = output_inode + 1
    /\ output_files' = {}

\* the directory a descriptor was opened on is still the one named "output"
Live(fd) == output_exists /\ output_inode = fd

\* session s of a program that runs analyze_content_with_llm stands at the
\* given statement
At(s, where) ==
    /\ prog \in {"images", "app"}
    /\ s \in DOMAIN sessions
    /\ sessions[s].pc = where

\* what follows line 39: the call app.main makes goes on to line 42,
\* get_unique_pages(results); a session run on its own was given that
\* list and enters the loop over it
AfterClear(s) == IF prog = "app" THEN "unique_pages" ELSE LoopPc(sessions[s].pages)

\* line 37: if Path(output_dir).exists()
LExists(s) ==
    /\ At(s, "exists")
    /\ sessions' = [sessions EXCEPT ![s].pc = IF output_exists THEN "rmtree" ELSE "mkdir"]
    /\ UNCHANGED odir
    /\ UNCHANGED iother

\* line 38, shutil.rmtree: orig_st = os.lstat(path)
LRmtreeLstat(s) ==
    /\ At(s, "rmtree")
    /\ sessions' = IF output_exists
                   THEN [sessions EXCEPT ![s].pc = "rmtree_open",
                                         ![s].orig_st = output_inode]
                   ELSE Raised(s, "rmtree", "FileNotFoundError")
    /\ UNCHANGED odir
    /\ UNCHANGED iother

\* line 38, shutil.rmtree: fd = os.open(path), then samestat(orig_st, fstat(fd)).
\* A directory made after the lstat is another one; the file system may have
\* given it the inode number of the removed one, and then samestat is true.
LRmtreeOpen(s) ==
    /\ At(s, "rmtree_open")
    /\ \/ /\ ~output_exists
          /\ sessions' = Raised(s, "rmtree", "FileNotFoundError")
       \/ /\ output_exists
          /\ sessions' = [sessions EXCEPT ![s].pc = "rmtree_scandir",
                                          ![s].fd = output_inode]
       \/ /\ output_exists
          /\ output_inode # sessions[s].orig_st
          /\ sessions' = Raised(s, "rmtree", "OSError: symbolic link")
    /\ UNCHANGED odir
    /\ UNCHANGED iother

\* line 38, _rmtree_safe_fd: entries = list(os.scandir(topfd)); a directory
\* that was removed meanwhile lists as empty
LRmtreeScandir(s) ==
    /\ At(s, "rmtree_scandir")
    /\ LET entries == IF Live(sessions[s].fd) THEN output_files ELSE {}
       IN sessions' = [sessions EXCEPT ![s].entries = entries,
                                       ![s].pc = IF entries = {} THEN "rmtree_rmdir"
                                                 ELSE "rmtree_unlink"]
    /\ UNCHANGED odir
    /\ UNCHANGED iother

\* line 38, _rmtree_safe_fd: os.unlink(entry.name, dir_fd=topfd) for one of
\* the entries listed; FileNotFoundError when the file is gone
LRmtreeUnlink(s) ==
    /\ At(s, "rmtree_unlink")
    /\ \E entry \in sessions[s].entries :
          IF Live(sessions[s].fd) /\ entry \in output_files
          THEN /\ output_files' = output_files \ {entry}
               /\ sessions' =
                    [sessions EXCEPT ![s].entries = @ \ {entry},
                                     ![s].pc = IF sessions[s].entries = {entry}
                                               THEN "rmtree_rmdir"
                                               ELSE "rmtree_unlink"]
          ELSE /\ sessions' = Raised(s, "rmtree", "FileNotFoundError")
               /\ UNCHANGED output_files
    /\ UNCHANGED << output_exists, output_inode >>
    /\ UNCHANGED iother

\* line 38, shutil.rmtree: os.rmdir(path), by name: FileNotFoundError when
\* there is no directory, OSError ENOTEMPTY when it holds a file
LRmtreeRmdir(s) ==
    /\ At(s, "rmtree_rmdir")
    /\ \/ /\ output_exists /\ output_files = {}
          /\ output_exists' = FALSE
          /\ sessions' = AfterRmtree(s)
       \/ /\ output_exists /\ output_files # {}
          /\ sessions' = Raised(s, "rmtree", "OSError: ENOTEMPTY")
          /\ UNCHANGED output_exists
       \/ /\ ~output_exists
          /\ sessions' = Raised(s, "rmtree", "FileNotFoundError")
          /\ UNCHANGED output_exists
    /\ UNCHANGED << output_inode, output_files >>
    /\ UNCHANGED iother

\* line 39, Path.mkdir(exist_ok=True): os.mkdir(self); on FileExistsError
\* the handler goes on to self.is_dir()
LMkdir(s) ==
    /\ At(s, "mkdir")
    /\ \/ /\ ~output_exists
          /\ CreateOutput
          /\ sessions' = [sessions EXCEPT ![s].pc = AfterClear(s)]
       \/ /\ output_exists
          /\ sessions' = [sessions EXCEPT ![s].pc = "mkdir_is_dir"]
          /\ UNCHANGED odir
    /\ UNCHANGED iother

\* line 39, Path.mkdir: if not exist_ok or not self.is_dir(): raise
LMkdirIsDir(s) ==
    /\ At(s, "mkdir_is_dir")
    /\ sessions' = IF output_exists
                   THEN [sessions EXCEPT ![s].pc = AfterClear(s)]
                   ELSE Raised(s, "mkdir", "FileExistsError")
    /\ UNCHANGED odir
    /\ UNCHANGED iother

\* process_pdf_page: Path(output_dir).mkdir(parents=True, exist_ok=True),
\* os.mkdir(self)
LPageMkdir(s) ==
    /\ At(s, "page_mkdir")
    /\ \/ /\ ~output_exists
          /\ CreateOutput
          /\ sessions' = [sessions EXCEPT ![s].pc = "page_save"]
       \/ /\ output_exists
          /\ sessions' = [sessions EXCEPT ![s].pc = "page_is_dir"]
          /\ UNCHANGED odir
    /\ UNCHANGED iother

\* process_pdf_page, Path.mkdir: self.is_dir(); the FileExistsError leaves
\* process_pdf_page as it is, the mkdir stands before the try
LPageIsDir(s) ==
    /\ At(s, "page_is_dir")
    /\ sessions' = IF output_exists
                   THEN [sessions EXCEPT ![s].pc = "page_save"]
                   ELSE Raised(s, "process_pdf_page", "FileExistsError")
    /\ UNCHANGED odir
    /\ UNCHANGED iother

\* process_pdf_page, the try block: fitz raises for a page the PDF lacks;
\* img.save(image_path) makes the file, or raises when the directory is
\* gone; both leave as Exception("Error processing PDF"); else the path is returned
LPageSave(s) ==
    /\ At(s, "page_save")
    /\ LET image_path == ImagePath(Head(sessions[s].pages))
       IN \/ /\ output_exists
             /\ output_files' = output_files \cup {image_path}
             /\ sessions' = [sessions EXCEPT ![s].pc = "encode",
                                             ![s].image_path = image_path]
          \/ /\ ~output_exists
             /\ sessions' = Raised(s, "process_pdf_page", "Exception")
             /\ UNCHANGED output_files
          \/ /\ sessions' = Raised(s, "process_pdf_page", "Exception")
             /\ UNCHANGED output_files
    /\ UNCHANGED << output_exists, output_inode >>
    /\ UNCHANGED iother

\* encode_image: open(image_path, "rb") raises FileNotFoundError for a file
\* that is not there; else the page joins page_contents
LEncode(s) ==
    /\ At(s, "encode")
    /\ \/ /\ sessions[s].image_path \in output_files
          /\ sessions' = [sessions EXCEPT ![s].pc = LoopPc(Tail(sessions[s].pages)),
                                          ![s].pages = Tail(sessions[s].pages),
                                          ![s].image_path = NoImage,
                                          ![s].page_contents = sessions[s].page_contents + 1]
       \/ /\ sessions[s].image_path \notin output_files
          /\ sessions' = Raised(s, "encode_image", "FileNotFoundError")
    /\ UNCHANGED odir
    /\ UNCHANGED iother

\* the session searches again: app.main calls analyze_content_with_llm for
\* every query whose search has results
LCallAgain(s) ==
    /\ prog = "images" /\ sessions[s].pc \in {"prompt", "raised"}
    /\ sessions[s].calls < MaxCalls
    /\ \E pages \in PageLists :
          sessions' = [sessions EXCEPT
                         ![s] = NewSession(sessions[s].module, pages, sessions[s].calls + 1)]
    /\ UNCHANGED odir
    /\ UNCHANGED iother

NextImages ==
    \E s \in 1..NumSessions :
        \/ LExists(s)
        \/ LRmtreeLstat(s) \/ LRmtreeOpen(s) \/ LRmtreeScandir(s)
        \/ LRmtreeUnlink(s) \/ LRmtreeRmdir(s)
        \/ LMkdir(s) \/ LMkdirIsDir(s)
        \/ LPageMkdir(s) \/ LPageIsDir(s) \/ LPageSave(s) \/ LEncode(s)
        \/ LCallAgain(s)

SpecImages == InitImages /\ [][NextImages]_ivars

----------------------------------------------------------------------------
(* app.py: the import of line 2 and main *)

\* the filter of a search that takes a file and a category: each one that
\* is set is required of the record's metadata, and there is no filter when
\* neither is set
CategoryFilterOf(selected_file, selected_category) ==
    LET keys == { k \in {"filename", "product_category"} :
                    IF k = "filename" THEN selected_file # None
                    ELSE selected_category # None }
    IN IF keys = {} THEN NoFilter
       ELSE DictFilter([k \in keys |-> IF k = "filename" THEN selected_file
                                       ELSE selected_category])

\* the result of that search for one match: the page is the stored
\* page_number as a float cut to an integer, 1 for a chunk that has none
SearchResultOf(match) ==
    [text |-> match.metadata.text,
     source |-> match.metadata.filename,
     score |-> match.score,
     page |-> IF "page_number" \in DOMAIN match.metadata
                 /\ ~FloatRaises(match.metadata.page_number)
              THEN PyInt(IntOfFloat(match.metadata.page_number))
              ELSE PyInt(1)]

\* the arguments lines 282-292 give the call of search: a file, a category
\* or neither, and always both keywords
AppCalls ==
    { c \in [query : {"q"}, selected_file : {None, "f.pdf", "g.pdf"},
             selected_category : {None, "valves"}, top_k : {MaxTopK},
             alpha : {DefaultAlpha}] :
        c.selected_file = None \/ c.selected_category = None }

\* app.py is started: line 2 has not run.  The two checkboxes of the sidebar
\* are what the user will have set; the working directory may hold the
\* directory "output" of an earlier search
InitApp ==
    /\ prog = "app"
    /\ pc = "import"
    /\ files = << >> /\ index = SearchIndex /\ run = 1 /\ fi = 1 /\ bi = 0
    /\ existing_ids = {} /\ vectors = << >>
    /\ chunks_processed = 0 /\ chunks_skipped = 0
    /\ total_files_processed = 0 /\ total_chunks_processed = 0
    /\ total_chunks_skipped = 0
    /\ faults = 0 /\ events = << >>
    /\ RetryIdle /\ BuildIdle /\ FilterIdle
    /\ output_exists \in BOOLEAN
    /\ output_inode = (IF output_exists THEN 1 ELSE 0)
    /\ output_files \in (IF output_exists
                         THEN SUBSET { ImagePath(p) : p \in ResultPages }
                         ELSE { {} })
    /\ sessions = << >>
    /\ call = None
    /\ filter_dict = NoFilter
    /\ matches = << >>
    /\ results = << >>
    /\ embed_calls = 0 /\ query_calls = 0 /\ error = None
    /\ use_llm \in BOOLEAN
    /\ show_pdfs \in BOOLEAN
    /\ response_stream = << >>
    /\ received = << >>
    /\ full_response = << >>
    /\ citations = << >>
    /\ unique_pages = {} /\ prompt_pages = << >> /\ page_nums = << >>

aother == << prog, singest, uwvars, dvars, pvars, fvars, call, filter_dict, matches, results,
             embed_calls, query_calls, use_llm, show_pdfs >>

asearch == << prog, singest, uwvars, dvars, pvars, fvars, call, avars >>

astart == << prog, singest, uwvars, dvars, pvars, fvars, filter_dict, matches, results,
             embed_calls, query_calls, avars >>

ScriptTopK == 5

\* retrieve_pinecone.py lines 60-81: the matches the script queries the page
\* of, those with a filename and a page_number that is not None
PageQueries(ms) ==
    Cardinality({ i \in 1..Len(ms) :
                    /\ "page_number" \in DOMAIN ms[i].metadata
                    /\ ms[i].metadata.page_number # PyNone })

\* line 2 with retrieve_pinecone.py as this source tree has it: the import
\* runs the script, which makes its clients (lines 7-12), embeds its question
\* (line 18), queries the index (line 25) and queries it again for the page
\* of every match (line 66); what one of these raises leaves line 2.  When
\* the script has run, the import raises ImportError, the script defining
\* neither initialize_clients nor search.  main is never called
AImport ==
    /\ prog = "app" /\ pc = "import"
    /\ pc' = "import_error"
    /\ \/ /\ error' \in {"EmbeddingError", "IndexQueryError"}     \* a client is not made
          /\ UNCHANGED << matches, embed_calls, query_calls >>
       \/ /\ embed_calls' = embed_calls + 1
          /\ \/ /\ error' = "EmbeddingError"
                /\ UNCHANGED << matches, query_calls >>
             \/ /\ error' = "IndexQueryError"                      \* line 25 raises
                /\ query_calls' = query_calls + 1
                /\ UNCHANGED matches
             \/ \E ms \in IndexAnswers(index, NoFilter, ScriptTopK) :
                   /\ matches' = ms
                   /\ \/ \E k \in 1..PageQueries(ms) :             \* line 66 raises
                            /\ query_calls' = query_calls + 1 + k
                            /\ error' = "IndexQueryError"
                      \/ /\ query_calls' = query_calls + 1 + PageQueries(ms)
                         /\ error' = "ImportError"
    /\ UNCHANGED << call, filter_dict, results >>
    /\ UNCHANGED << prog, singest, uwvars, dvars, pvars, fvars, avars >>

\* line 2 with the retrieve_pinecone module app.py is written for, which is
\* not part of this source tree: both names are bound and main is called
AImportPinecone ==
    /\ prog = "app" /\ pc = "import"
    /\ pc' = "init"
    /\ UNCHANGED << call, error >>
    /\ UNCHANGED astart

\* lines 271-275 with initialize_clients of retrieve_hybrid.py, the one this
\* source tree defines: it takes no argument, so the call with the index
\* name raises TypeError, line 274 shows it and st.stop() ends main
AInitClients ==
    /\ prog = "app" /\ pc = "init"
    /\ pc' = "stopped"
    /\ error' = "TypeError"
    /\ UNCHANGED call
    /\ UNCHANGED astart

\* lines 271-275 with initialize_clients of that module: it returns the
\* index and the embeddings, or raises and st.stop() ends main
AInitClientsPinecone ==
    /\ prog = "app" /\ pc = "init"
    /\ \/ /\ pc' = "query"
          /\ UNCHANGED error
       \/ /\ pc' = "stopped"
          /\ error' = "Exception"
    /\ UNCHANGED call
    /\ UNCHANGED astart

\* lines 278-292: without a query main ends; with one, the arguments of
\* the search are set from the sidebar
AQuery ==
    /\ prog = "app" /\ pc = "query"
    /\ \/ /\ pc' = "done"
          /\ UNCHANGED call
       \/ \E c \in AppCalls :
             /\ call' = c
             /\ pc' = "search"
    /\ UNCHANGED error
    /\ UNCHANGED astart

\* lines 294-301 with the search of retrieve_hybrid.py, the one search this
\* source tree defines: it declares no selected_category, so binding the
\* arguments raises TypeError before anything is embedded or queried, and
\* lines 375-376 print "Search error"
ASearch ==
    /\ prog = "app" /\ pc = "search"
    /\ call.selected_category # NotPassed
    /\ pc' = "search_error"
    /\ error' = "TypeError"
    /\ UNCHANGED << filter_dict, matches, results, embed_calls, query_calls >>
    /\ UNCHANGED asearch

\* lines 294-301 with the search line 2 imports from retrieve_pinecone, which
\* takes selected_category and is not part of this source tree: one
\* embedding, then one query under the filter, whose matches come back in the
\* index's order; a failure of either call reaches lines 375-376
ASearchPinecone ==
    /\ prog = "app" /\ pc = "search"
    /\ embed_calls' = embed_calls + 1
    /\ \/ /\ pc' = "search_error"
          /\ error' = "EmbeddingError"
          /\ UNCHANGED << filter_dict, matches, results, query_calls >>
       \/ /\ filter_dict' = CategoryFilterOf(call.selected_file, call.selected_category)
          /\ query_calls' = query_calls + 1
          /\ \/ /\ pc' = "search_error"
                /\ error' = "IndexQueryError"
                /\ UNCHANGED << matches, results >>
             \/ \E ms \in IndexAnswers(index, filter_dict', call.top_k) :
                   /\ matches' = ms
                   /\ results' = [i \in 1..Len(ms) |-> SearchResultOf(ms[i])]
                   /\ pc' = "results"
                   /\ UNCHANGED error
    /\ UNCHANGED asearch

amain == << prog, singest, uwvars, dvars, fvars, call, filter_dict, matches, results,
            embed_calls, query_calls, use_llm, show_pdfs >>

\* lines 303-310 and llm_processing.py lines 25-33: without results main
\* warns, without the LLM toggle it goes on to the sources, else it enters
\* analyze_content_with_llm
AAnalyze ==
    /\ prog = "app" /\ pc = "results"
    /\ IF results = << >>
       THEN \* line 373: "No results found"
            /\ pc' = "done"
            /\ UNCHANGED sessions
       ELSE IF ~use_llm
       THEN /\ pc' = "sources"
            /\ UNCHANGED sessions
       ELSE /\ pc' = "analyze"
            /\ sessions' = << NewSession("llm_processing", << >>, 1) >>
    /\ UNCHANGED << error, response_stream, received, full_response, citations,
                    unique_pages, prompt_pages, page_nums >>
    /\ UNCHANGED odir
    /\ UNCHANGED amain

\* the orders the for loop of line 45 can be given the pages in
PageOrders(pairs) ==
    { l \in SeqsUpTo({ [filename |-> p[1], page |-> p[2]] : p \in pairs },
                      Cardinality(pairs)) :
        /\ Len(l) = Cardinality(pairs)
        /\ \A i, j \in 1..Len(l) : i # j => l[i] # l[j] }

\* llm_processing.py line 42: unique_pages = get_unique_pages(results),
\* which raises at int(float(r['page'])) for a page float() refuses
AUniquePages ==
    /\ prog = "app" /\ pc = "analyze" /\ At(1, "unique_pages")
    /\ IF FirstBadPage(results, 1) # 0
       THEN /\ sessions' = Raised(1, "get_unique_pages",
                                  FloatError(results[FirstBadPage(results, 1)].page))
            /\ UNCHANGED unique_pages
       ELSE /\ unique_pages' = get_unique_pages(results)
            /\ \E l \in PageOrders(get_unique_pages(results)) :
                  sessions' = [sessions EXCEPT ![1].pages = l, ![1].pc = LoopPc(l)]
    /\ UNCHANGED << pc, error, response_stream, received, full_response, citations,
                    prompt_pages, page_nums >>
    /\ UNCHANGED odir
    /\ UNCHANGED amain

\* an exception left analyze_content_with_llm: nothing in main catches it
\* before lines 375-376
AAnalyzeRaised ==
    /\ prog = "app" /\ pc = "analyze" /\ At(1, "raised")
    /\ pc' = "search_error"
    /\ error' = sessions[1].exception
    /\ UNCHANGED << response_stream, received, full_response, citations,
                    unique_pages, prompt_pages, page_nums >>
    /\ UNCHANGED pvars
    /\ UNCHANGED amain

\* llm_processing.py lines 58-98 and app.py lines 311-323: the prompt is
\* written and the stream is opened
AStreamOpen ==
    /\ prog = "app" /\ pc = "analyze" /\ At(1, "prompt")
    /\ prompt_pages' = PromptPages(results)
    /\ sessions' = [sessions EXCEPT ![1].pc = "returned"]
    /\ \/ \* llm.stream raised and a str was returned: its characters
          \* have no attribute content (app.py line 324)
          /\ pc' = "search_error"
          /\ error' = "AttributeError"
          /\ UNCHANGED response_stream
       \/ \* llm.stream(prompt) is returned: the chunks it will yield
          \E stream \in SeqsUpTo(StreamChunks, MaxDeltas) :
             /\ response_stream' = stream
             /\ pc' = "stream"
             /\ UNCHANGED error
    /\ UNCHANGED << received, full_response, citations, unique_pages, page_nums >>
    /\ UNCHANGED odir
    /\ UNCHANGED amain

\* lines 323-326: the generator yields its next chunk
AStreamChunk ==
    /\ prog = "app" /\ pc = "stream"
    /\ response_stream # << >>
    /\ response_stream' = Tail(response_stream)
    /\ received' = Append(received, Head(response_stream))
    /\ full_response' = IF Head(response_stream).content_is_none
                        THEN full_response
                        ELSE AppendDelta(full_response, Head(response_stream).content)
    /\ UNCHANGED << pc, error, citations, unique_pages, prompt_pages, page_nums >>
    /\ UNCHANGED aother

\* line 323: the generator raises instead of yielding; lines 375-376 catch it
AStreamRaise ==
    /\ prog = "app" /\ pc = "stream"
    /\ pc' = "search_error"
    /\ error' = "StreamError"
    /\ UNCHANGED << response_stream, received, full_response, citations,
                    unique_pages, prompt_pages, page_nums >>
    /\ UNCHANGED aother

\* lines 328-337: the generator is exhausted
AStreamEnd ==
    /\ prog = "app" /\ pc = "stream"
    /\ response_stream = << >>
    /\ citations' = IF show_pdfs THEN extract_citation(full_response) ELSE citations
    /\ pc' = "sources"
    /\ UNCHANGED << error, response_stream, received, full_response,
                    unique_pages, prompt_pages, page_nums >>
    /\ UNCHANGED aother

\* lines 343-371: one entry per result under "RAG Sources"
ASources ==
    /\ prog = "app" /\ pc = "sources"
    /\ IF FirstBadPage(results, 1) # 0
       THEN /\ page_nums' = [i \in 1..(FirstBadPage(results, 1) - 1) |->
                                IntOfFloat(results[i].page)]
            /\ pc' = "search_error"
            /\ error' = FloatError(results[FirstBadPage(results, 1)].page)
       ELSE /\ page_nums' = [i \in 1..Len(results) |-> IntOfFloat(results[i].page)]
            /\ pc' = "done"
            /\ UNCHANGED error
    /\ UNCHANGED << response_stream, received, full_response, citations,
                    unique_pages, prompt_pages >>
    /\ UNCHANGED aother

\* the statements of analyze_content_with_llm on the directory "output"
\* and the page images, for the one call main makes.  No other session is
\* at work on the directory here, so os.mkdir of line 39 finds none
AnalyzeSteps ==
    \/ LExists(1)
    \/ LRmtreeLstat(1) \/ LRmtreeOpen(1) \/ LRmtreeScandir(1)
    \/ LRmtreeUnlink(1) \/ LRmtreeRmdir(1)
    \/ LMkdir(1)
    \/ LPageMkdir(1) \/ LPageIsDir(1) \/ LPageSave(1) \/ LEncode(1)

NextApp ==
    \/ AImport \/ AImportPinecone \/ AInitClients \/ AInitClientsPinecone \/ AQuery
    \/ ASearch \/ ASearchPinecone
    \/ AAnalyze \/ AnalyzeSteps \/ AUniquePages \/ AAnalyzeRaised \/ AStreamOpen
    \/ AStreamChunk \/ AStreamRaise \/ AStreamEnd \/ ASources

SpecApp == InitApp /\ [][NextApp]_ivars

----------------------------------------------------------------------------
(* app.py: the sidebar's category and document selection *)

\* names as lists of pieces, so that replace('.pdf', '') has something to remove
PdfFile(stem) == << stem, ".pdf" >>
AllDocuments == << "All Documents" >>
AllFilesInCategory == << "All Files in Category" >>
AllCategories == "All Categories"

NoneFile == << >>       \* None, or '', where a filename is expected

\* the entries the product index can hold: PDF documents with distinct stems,
\* each with a category, and entries that lack the category or the filename
Products ==
    { [product_category |-> c, filename |-> f] :
        c \in {"valves", "pumps", ""}, f \in {PdfFile("a"), PdfFile("b"), NoneFile} }

\* lines 71-87: one pass of the loop over the products
AddProduct(mapping, product) ==
    LET category == product.product_category
        filename == product.filename
    IN IF category = "" \/ filename = NoneFile
       THEN mapping
       ELSE LET m1 == IF category \in DOMAIN mapping
                      THEN mapping
                      ELSE mapping @@ (category :> << >>)
                m2 == IF filename \in SeqToSet(m1[category])
                      THEN m1
                      ELSE [m1 EXCEPT ![category] = Append(@, filename)]
            IN IF filename \in SeqToSet(m2[AllCategories])
               THEN m2
               ELSE [m2 EXCEPT ![AllCategories] = Append(@, filename)]

RECURSIVE AddProducts(_, _)
AddProducts(mapping, products) ==
    IF products = << >> THEN mapping
    ELSE AddProducts(AddProduct(mapping, Head(products)), Tail(products))

get_category_to_products_mapping(products) ==
    AddProducts((AllCategories :> << AllDocuments >>), products)

\* lines 184-191: the display name of one entry of files_list
DisplayOf(filename) ==
    IF filename = AllDocuments \/ filename = AllFilesInCategory
    THEN filename
    ELSE SelectSeq(filename, LAMBDA piece : piece # ".pdf")

\* transform_filenames: display_names
display_names(files_list) == [i \in 1..Len(files_list) |-> DisplayOf(files_list[i])]

\* transform_filenames: display_to_file[name], the last entry displayed as name
display_to_file(files_list, name) ==
    LET last == CHOOSE i \in 1..Len(files_list) :
                    /\ DisplayOf(files_list[i]) = name
                    /\ \A j \in (i + 1)..Len(files_list) : DisplayOf(files_list[j]) # name
    IN files_list[last]

\* lines 228-238: the list handed to transform_filenames
FilesList(selected_category) ==
    LET category_files == IF selected_category \in DOMAIN category_to_products
                          THEN category_to_products[selected_category]
                          ELSE << AllDocuments >>
    IN IF selected_category # AllCategories
       THEN << AllFilesInCategory >> \o category_files
       ELSE category_files

InitFilter ==
    /\ prog = "filter"
    /\ pc = "category"
    /\ files = << >> /\ index = << >> /\ run = 1 /\ fi = 1 /\ bi = 0
    /\ existing_ids = {} /\ vectors = << >>
    /\ chunks_processed = 0 /\ chunks_skipped = 0
    /\ total_files_processed = 0 /\ total_chunks_processed = 0
    /\ total_chunks_skipped = 0
    /\ faults = 0 /\ events = << >>
    /\ RetryIdle /\ SearchIdle /\ AppIdle /\ BuildIdle /\ ImagesIdle
    /\ category_to_products \in
          { get_category_to_products_mapping(ps) : ps \in SeqsUpTo(Products, MaxProducts) }
    /\ sidebar = NoSidebar
    /\ search_args = NoSearch

fother == << prog, singest, uwvars, svars, avars, dvars, pvars, category_to_products >>

\* line 225: the user picks one of category_names
FSelectCategory ==
    /\ prog = "filter" /\ pc = "category"
    /\ \E c \in DOMAIN category_to_products :
          sidebar' = [sidebar EXCEPT !.selected_category = c]
    /\ pc' = "document"
    /\ UNCHANGED search_args
    /\ UNCHANGED fother

\* lines 241-260: the user picks one of display_names; selected_file and filter_mode
FSelectDocument ==
    /\ prog = "filter" /\ pc = "document"
    /\ LET selected_category == sidebar.selected_category
           files_list == FilesList(selected_category)
       IN \E selected_display_name \in SeqToSet(display_names(files_list)) :
             sidebar' =
                IF selected_display_name = AllFilesInCategory
                THEN [sidebar EXCEPT !.selected_display_name = selected_display_name,
                                     !.selected_file = NoneFile,
                                     !.filter_mode = "category"]
                ELSE IF selected_display_name = AllDocuments
                THEN [sidebar EXCEPT !.selected_display_name = selected_display_name,
                                     !.selected_file = NoneFile,
                                     !.filter_mode = "all"]
                ELSE LET selected_file == display_to_file(files_list, selected_display_name)
                     IN [sidebar EXCEPT !.selected_display_name = selected_display_name,
                                        !.selected_file = selected_file,
                                        !.filter_mode =
                                            IF /\ selected_category # AllCategories
                                               /\ selected_file # AllDocuments
                                            THEN "file"
                                            ELSE "category"]
    /\ pc' = "query"
    /\ UNCHANGED search_args
    /\ UNCHANGED fother

\* lines 280-301: a query was entered; search is called with the two filters
FSearch ==
    /\ prog = "filter" /\ pc = "query"
    /\ search_args' =
          [called |-> TRUE,
           selected_file |-> IF sidebar.filter_mode = "file"
                             THEN sidebar.selected_file
                             ELSE NoneFile,
           selected_category |-> IF /\ sidebar.filter_mode # "file"
                                    /\ sidebar.filter_mode = "category"
                                    /\ sidebar.selected_category # AllCategories
                                 THEN sidebar.selected_category
                                 ELSE None]
    /\ pc' = "searched"
    /\ UNCHANGED sidebar
    /\ UNCHANGED fother

\* line 280: no query was entered, nothing is searched
FNoQuery ==
    /\ prog = "filter" /\ pc = "query"
    /\ pc' = "no_query"
    /\ UNCHANGED << sidebar, search_args >>
    /\ UNCHANGED fother

NextFilter == FSelectCategory \/ FSelectDocument \/ FSearch \/ FNoQuery

SpecFilter == InitFilter /\ [][NextFilter]_ivars

----------------------------------------------------------------------------
(* Any of the scripts *)

Init == InitBasic \/ InitHybrid \/ InitUpsert \/ InitSearch \/ InitCitation \/ InitApp
            \/ InitBuildDict \/ InitImages \/ InitFilter

Next == NextBasic \/ NextHybrid \/ NextUpsert \/ NextSearch \/ NextCitation \/ NextApp
            \/ NextBuildDict \/ SNoResponse \/ NextImages \/ NextFilter

vars == ivars

Spec == Init /\ [][Next]_vars

\* either ingestion script: indexing_pinecone.main or indexing_pinecone_hybrid.main
InitIngest == InitBasic \/ InitHybrid

NextIngest == NextBasic \/ NextHybrid

SpecIngest == InitIngest /\ [][NextIngest]_ivars

----------------------------------------------------------------------------
(* History of a behaviour, read from events *)

Range(s) == { s[i] : i \in DOMAIN s }

RECURSIVE SumLenItems(_)
SumLenItems(s) == IF s = << >> THEN 0 ELSE Len(Head(s).items) + SumLenItems(Tail(s))

RECURSIVE ConcatItems(_)
ConcatItems(s) == IF s = << >> THEN << >> ELSE Head(s).items \o ConcatItems(Tail(s))

EventsOf(r, kind) == SelectSeq(events, LAMBDA e : e.run = r /\ e.kind = kind)

\* a collaborator call of run r raised (a swallowed lookup failure included)
FailureIn(r) == \E e \in Range(events) : e.run = r /\ ~e.ok

\* a run of main whose file reads, embedding calls and upserts all succeeded
RunSucceeded(r) ==
    \A e \in Range(events) :
        (e.run = r /\ e.kind \in {"file_error", "embed", "upsert"}) => e.ok

\* a chunk that passes the filters of the ingestion contract: its type is not
\* excluded and its text keeps a character after normalisation
SurvivesFiltering(c) ==
    /\ c.type \notin {"Footer", "Image"}
    /\ \E i \in DOMAIN c.text : c.text[i] \notin {Space, NonAscii}

Positions == { << f, k >> \in (DOMAIN files) \X (1..MaxChunks) : k <= Len(files[f]) }

\* the start offset of the batch that holds the k-th chunk of a file
BatchOfItem(k) == ((k - 1) \div BatchSize) * BatchSize

\* the element_ids of the chunks at the given positions of file f
IdsAt(f, items) == { files[f][k].element_id : k \in SeqToSet(items) }

----------------------------------------------------------------------------
(* Replaying indexing_pinecone.main *)

\* the ids the index held before the first run
InitiallyIndexed == IF events = << >> THEN DOMAIN index ELSE events[1].present

\* the ids the index holds after a first successful run: those it held before
\* and those of the chunks that pass the filters
IndexedAfterFirstRun ==
    InitiallyIndexed
    \cup { files[p[1]][p[2]].element_id : p \in { q \in Positions : SurvivesFiltering(files[q[1]][q[2]]) } }

\* what a replay adds up in chunks_skipped for the batches of file f from offset 0 to b
RECURSIVE ReplaySkipped(_, _)
ReplaySkipped(f, b) ==
    Cardinality(BatchIds(files[f], b) \cap IndexedAfterFirstRun)
    + (IF b = 0 THEN 0 ELSE ReplaySkipped(f, b - BatchSize))

\* the replay stands after process_batch of some batch, and nothing failed in it so far
ReplayedBatch ==
    /\ prog = "basic" /\ run = 2 /\ pc = "upsert"
    /\ RunSucceeded(1)
    /\ ~FailureIn(2)

\* What a replay does report. A replay of main over the index left by a first
\* successful run, its lookups returning,
\* adds for every batch 0 to chunks_processed, and to chunks_skipped the number of
\* distinct element_ids of the batch that the index holds: the ids of the chunks
\* that pass the type and the empty-text filter, and the ids indexed before. That
\* is the number of chunks of the batch only if every chunk of it has an indexed
\* id of its own. When the replay's lookup raises, the batch adds 0 to chunks_skipped.
ReplaySkipsIndexedIds ==
    /\ ReplayedBatch =>
          /\ vectors = << >>
          /\ chunks_processed = 0
          /\ chunks_skipped = ReplaySkipped(fi, bi)
          /\ Cardinality(existing_ids) <= BatchEnd(files[fi], bi) - bi
          /\ (Cardinality(existing_ids) = BatchEnd(files[fi], bi) - bi)
                <=> \A k \in SeqToSet(BatchItems(files[fi], bi)) :
                       /\ files[fi][k].element_id \in IndexedAfterFirstRun
                       /\ \A j \in SeqToSet(BatchItems(files[fi], bi)) :
                             j # k => files[fi][j].element_id # files[fi][k].element_id
    /\ (prog = "basic" /\ run = 2 /\ pc = "process" /\ ~events[Len(events)].ok)
          => existing_ids = {}

\* a replayed batch of two chunks of which one passes the filters
ReplayOfFilteredChunk ==
    /\ ReplayedBatch
    /\ Len(files[fi]) = 2
    /\ SurvivesFiltering(files[fi][1])
    /\ ~SurvivesFiltering(files[fi][2])
    /\ files[fi][1].element_id # files[fi][2].element_id
    /\ InitiallyIndexed = {}
    /\ chunks_skipped = 1

\* C1: the replay of a batch over the index left by a first successful run
\* reports chunks_skipped equal to the number of chunks of the batch and
\* chunks_processed equal to 0
C1_Original ==
    ReplayedBatch =>
        /\ Cardinality(existing_ids) = BatchEnd(files[fi], bi) - bi
        /\ vectors = << >>

----------------------------------------------------------------------------
(* Claims on indexing_pinecone.main *)

\* C2 as claimed: whatever the lookup answers, no chunk whose element_id the index
\* holds when its batch is checked is sent to the embedding call or put in an upsert
C2_NoIndexedIdIsProcessed ==
    prog = "basic" =>
        \A e \in Range(events) :
            e.kind \in {"embed", "upsert"} => IdsAt(e.file, e.items) \cap e.present = {}

\* every batch of the input, file by file, as << file, start offset >>
RECURSIVE BatchesFrom(_, _)
BatchesFrom(f, b) ==
    IF f > Len(files) THEN << >>
    ELSE IF b >= Len(files[f]) THEN BatchesFrom(f + 1, 0)
    ELSE << << f, b >> >> \o BatchesFrom(f, b + BatchSize)

CheckedBatches(r) ==
    LET fetched == EventsOf(r, "fetch")
    IN [n \in 1..Len(fetched) |-> << fetched[n].file, fetched[n].batch >>]

NoFileError == \A e \in Range(events) : e.kind # "file_error"

\* C4 as claimed, for indexing_pinecone.main: whatever embedding or upsert failed,
\* the run has gone through every batch of every file, in order
C4_EveryBatchIsProcessed ==
    (prog = "basic" /\ pc = "done" /\ run = 1 /\ NoFileError)
        => CheckedBatches(1) = BatchesFrom(1, 0)

Upserted(f, k) ==
    \E e \in Range(events) :
        e.run = 1 /\ e.kind = "upsert" /\ e.ok /\ e.file = f /\ k \in SeqToSet(e.items)

SkippedAsExisting(f, k) ==
    \E e \in Range(events) :
        /\ e.run = 1 /\ e.kind = "fetch" /\ e.ok /\ e.file = f /\ k \in SeqToSet(e.items)
        /\ files[f][k].element_id \in e.present

\* the chunk's batch is one whose embedding or upsert was reported as failed
InReportedBatch(f, k) ==
    \E e \in Range(events) :
        /\ e.run = 1 /\ e.kind \in {"embed", "upsert"} /\ ~e.ok
        /\ e.file = f /\ e.batch = BatchOfItem(k)

\* C5 as claimed, for indexing_pinecone.main: at the end of the run every chunk that
\* passes the filters was upserted, was skipped as existing, or is in a reported batch
C5_EveryChunkAccounted ==
    (prog = "basic" /\ pc = "done" /\ run = 1 /\ NoFileError)
        => \A p \in Positions :
              SurvivesFiltering(files[p[1]][p[2]])
                  => \/ Upserted(p[1], p[2])
                     \/ SkippedAsExisting(p[1], p[2])
                     \/ InReportedBatch(p[1], p[2])

RECURSIVE SumFound(_)
SumFound(fetched) ==
    IF fetched = << >> THEN 0
    ELSE LET e == Head(fetched)
         IN (IF e.ok THEN Cardinality(IdsAt(e.file, e.items) \cap e.present) ELSE 0)
            + SumFound(Tail(fetched))

\* C7 as claimed: the totals of the final report are the number of vectors upserted
\* and the number of ids found existing during the run
C7_TotalsCountEveryBatch ==
    (prog = "basic" /\ pc = "done" /\ run = 1)
        => /\ total_chunks_processed
                = SumLenItems(SelectSeq(EventsOf(1, "upsert"), LAMBDA e : e.ok))
           /\ total_chunks_skipped = SumFound(EventsOf(1, "fetch"))

----------------------------------------------------------------------------
(* Claims on indexing_pinecone_hybrid *)

\* C3 as claimed: the hybrid ingestion issues no embedding request and no upsert
\* for a chunk whose id the index already holds
C3_HybridNeverReindexes ==
    prog = "hybrid" =>
        \A e \in Range(events) :
            e.kind \in {"embed", "upsert"}
                => { Flatten(files)[k].element_id : k \in SeqToSet(e.items) } \cap e.present = {}

\* C6: when upsert_with_retry returns, the successful upsert calls, in the order
\* made, are consecutive slices of the vector list that cover it once
C6_SuccessfulSlicesCoverOnce ==
    (prog = "upsert" /\ pc = "returned")
        => LET sent == SelectSeq(events, LAMBDA e : e.kind = "upsert" /\ e.ok)
           IN /\ ConcatItems(sent) = [k \in 1..Len(vectors) |-> k]
              /\ \A n \in 1..Len(sent) : sent[n].items # << >>
              /\ DOMAIN index = { vectors[k].vec.id : k \in 1..Len(vectors) }

\* C6 witness: a list of seven vectors went out in three or more slices, after
\* size reductions and after a retried attempt
C6_Witness ==
    /\ prog = "upsert" /\ pc = "returned"
    /\ Len(vectors) = 7
    /\ chunk_size < 7
    /\ attempt > 0
    /\ Len(SelectSeq(events, LAMBDA e : e.kind = "upsert" /\ e.ok)) >= 3

----------------------------------------------------------------------------
(* Claims on retrieve_hybrid.search *)

SearchFinished == prog = "search" /\ pc \in {"returned", "raised"}

\* some record of the index satisfies the filter
FilterMatchesSomething == \E i \in DOMAIN index : Satisfies(index[i], filter_dict)

\* C8: search returns one result per match of the index, in the index's order:
\* at most top_k results, by non-increasing score, and none, without an error,
\* when no record satisfies the filter
C8_ResultsFollowMatches ==
    (prog = "search" /\ pc = "returned")
        => /\ Len(results) = Len(matches)
           /\ \A i \in 1..Len(matches) :
                 /\ results[i].score = matches[i].score
                 /\ results[i].text = matches[i].metadata.text
                 /\ results[i].source = matches[i].metadata.filename
           /\ Len(results) <= call.top_k
           /\ \A i \in 1..(Len(results) - 1) : results[i].score >= results[i + 1].score
           /\ ~FilterMatchesSomething => results = << >>

\* C8 witness: three results, two of them of equal score, under a missing filter;
\* see also C8_WitnessEmpty
C8_Witness ==
    /\ prog = "search" /\ pc = "returned"
    /\ Len(results) = 3
    /\ results[1].score > results[2].score
    /\ results[2].score = results[3].score

\* the filter of a file without records: search returned the empty list
C8_WitnessEmpty ==
    /\ prog = "search" /\ pc = "returned"
    /\ ~FilterMatchesSomething
    /\ results = << >>

FileSupplied == call.selected_file \notin {None, ""}
CategorySupplied == call.selected_category \notin {NotPassed, None}

\* C9 as claimed: a call that no collaborator failed (one that leaves the category
\* out, or one that names a category) has queried the index with a filter that
\* requires the file when one was supplied, the category when one was supplied,
\* and with no filter when neither was
C9_FilterCarriesFileAndCategory ==
    (/\ SearchFinished
     /\ error \notin {"EmbeddingError", "IndexQueryError"}
     /\ call.selected_category # None)
        => /\ query_calls = 1
           /\ FileSupplied =>
                 /\ ~filter_dict.is_none
                 /\ "filename" \in DOMAIN filter_dict.dict
                 /\ filter_dict.dict["filename"] = call.selected_file
           /\ CategorySupplied =>
                 /\ ~filter_dict.is_none
                 /\ "product_category" \in DOMAIN filter_dict.dict
                 /\ filter_dict.dict["product_category"] = call.selected_category
           /\ (~FileSupplied /\ ~CategorySupplied) => filter_dict.is_none

\* C10: a call of search that entered the function asks for one embedding and
\* queries the index at most once; a failed embedding leaves the index unqueried;
\* either failure ends the call with the error, no retry and no result list
C10_FailuresPropagateUnretried ==
    prog = "search" =>
        /\ embed_calls <= 1 /\ query_calls <= 1
        /\ (pc \in {"returned", "raised"} /\ error # "TypeError") => embed_calls = 1
        /\ error = "EmbeddingError" => (pc = "raised" /\ query_calls = 0)
        /\ error = "IndexQueryError" => (pc = "raised" /\ query_calls = 1)
        /\ pc = "raised" => (results = << >> /\ matches = << >> /\ error # None)
        /\ pc = "returned" => (error = None /\ embed_calls = 1 /\ query_calls = 1)

\* C10 witness: a call whose index query raised after its embedding returned
C10_Witness ==
    /\ prog = "search" /\ pc = "raised"
    /\ error = "IndexQueryError"
    /\ embed_calls = 1 /\ query_calls = 1

----------------------------------------------------------------------------
(* extract_citation *)

CitationReturned == prog = "citation" /\ pc = "returned"

\* the (filename, page) pair of every marker the pattern finds, in text order
MarkerPairs(text) == [k \in 1..Len(FindAll(text)) |-> CitationOf(FindAll(text)[k])]

\* where a pair occurs first among the markers of the text
FirstOccurrence(pair, text) ==
    CHOOSE k \in 1..Len(MarkerPairs(text)) :
        /\ MarkerPairs(text)[k] = pair
        /\ \A n \in 1..(k - 1) : MarkerPairs(text)[n] # pair

\* C12: extract_citation returns no (filename, page) pair twice; it returns
\* exactly the pairs of the markers of the text, in the order in which each
\* occurs first.
C12_CitationsUniqueInFirstOrder ==
    CitationReturned =>
        /\ \A i, j \in 1..Len(citations) : i # j => citations[i] # citations[j]
        /\ Range(citations) = Range(MarkerPairs(full_response))
        /\ \A i, j \in 1..Len(citations) :
              i < j => FirstOccurrence(citations[i], full_response)
                          < FirstOccurrence(citations[j], full_response)

\* a pair is repeated after another pair was met, and is returned once
C12_Witness ==
    /\ CitationReturned
    /\ Len(citations) = 2
    /\ Len(MarkerPairs(full_response)) = 3
    /\ MarkerPairs(full_response)[3] = MarkerPairs(full_response)[1]

\* C13: every citation extract_citation returns has a page that is an integer
\* of at least 1.
C13_PagesArePositive ==
    CitationReturned => \A i \in 1..Len(citations) : citations[i][2] >= 1

\* C14: a bracket group that is no citation marker is ignored: putting "[n]"
\* in front of the text leaves the returned pairs as they are, and no returned
\* filename holds a bracket.
C14_OtherBracketsIgnored ==
    CitationReturned =>
        /\ extract_citation(Note \o full_response) = citations
        /\ \A i \in 1..Len(citations) :
              \A k \in 1..Len(citations[i][1]) : citations[i][1][k] \notin {"[", "]"}

----------------------------------------------------------------------------
(* app.main *)

\* the page a match stands for: its page_number as a float, cut to an
\* integer; 1 when the match has no page_number
PageOfMatch(match) ==
    IF "page_number" \in DOMAIN match.metadata
    THEN IntOfFloat(match.metadata.page_number)
    ELSE 1

AppUsedLlm == prog = "app" /\ use_llm /\ results # << >>

\* C11: for every match the index returned to search, the page listed for
\* its result, written into the prompt and put into the set of unique pages
\* is the stored page_number cut to an integer, 1 when it is absent; the
\* conversion int(float(page)) fails for no result.
C11_PagesAreCoerced ==
    (prog = "search" /\ pc = "returned") =>
        /\ FirstBadPage(results, 1) = 0
        /\ PromptPages(results) = [i \in 1..Len(matches) |-> PageOfMatch(matches[i])]
        /\ get_unique_pages(results) =
              { << matches[i].metadata.filename, PageOfMatch(matches[i]) >> :
                   i \in 1..Len(matches) }

\* the text the chunks hold, in the order given: chunks whose content is
\* None add nothing
RECURSIVE ConcatContents(_)
ConcatContents(chunks) ==
    IF chunks = << >> THEN << >>
    ELSE (IF Head(chunks).content_is_none THEN << >> ELSE Head(chunks).content)
            \o ConcatContents(Tail(chunks))

IsPrefix(s, t) == Len(s) <= Len(t) /\ SubSeq(t, 1, Len(s)) = s

\* C15: the buffer is at every step the contents of the chunks received so
\* far, in the order of arrival; what it was after any earlier chunk is a
\* prefix of it; when the stream has ended it holds the contents of all chunks.
C15_BufferIsConcatenation ==
    prog = "app" =>
        /\ full_response = ConcatContents(received)
        /\ \A k \in 0..Len(received) :
              IsPrefix(ConcatContents(SubSeq(received, 1, k)), full_response)
        /\ AppUsedLlm /\ pc \in {"sources", "done"} => response_stream = << >>

\* the stream ended after chunks of different content and one None chunk
C15_Witness ==
    /\ AppUsedLlm /\ pc = "sources"
    /\ Len(received) = 3
    /\ \E i \in 1..3 : received[i].content_is_none
    /\ \E i, j \in 1..3 : /\ i < j
                          /\ ~received[i].content_is_none /\ ~received[j].content_is_none
                          /\ received[i].content # received[j].content

\* C16: when the stream raises after some chunks, the text received so far
\* is kept and extract_citation is run over it: the citations shown are
\* those of the partial text.
C16_PartialTextIsCited ==
    (prog = "app" /\ error = "StreamError" /\ show_pdfs /\ received # << >>) =>
        /\ full_response = ConcatContents(received)
        /\ citations = extract_citation(full_response)

----------------------------------------------------------------------------
(* build_dict *)

BuildFinished == prog = "build_dict" /\ pc # "call"

\* the token ids of a document that are not reserved
NonSpecialTokens(token_ids) == SeqToSet(token_ids) \ SpecialTokens

\* C17: for every batch, the empty one included, build_dict returns without
\* error one sparse vector per document, and the vector of a document with
\* no token other than the reserved ones is empty.
C17_OneVectorPerDocument ==
    BuildFinished =>
        /\ pc = "returned" /\ error = None
        /\ Len(sparse_emb) = Len(input_batch)
        /\ \A d \in 1..Len(sparse_emb) :
              NonSpecialTokens(input_batch[d]) = {} =>
                 sparse_emb[d].indices = << >> /\ sparse_emb[d].values = << >>

\* C18: for a batch of one document that is not empty, build_dict raises
\* nothing and returns one vector: its indices are distinct token ids of the
\* document, none of them 0, 1 or 2, and it has as many values as indices.
C18_SingleDocumentVector ==
    (BuildFinished /\ Len(input_batch) = 1 /\ Len(input_batch[1]) > 0) =>
        /\ pc = "returned" /\ error = None
        /\ Len(sparse_emb) = 1
        /\ SeqToSet(sparse_emb[1].indices) \subseteq NonSpecialTokens(input_batch[1])
        /\ \A i, j \in 1..Len(sparse_emb[1].indices) :
              i # j => sparse_emb[1].indices[i] # sparse_emb[1].indices[j]
        /\ Len(sparse_emb[1].indices) = Len(sparse_emb[1].values)

\* one document holding a reserved token and another token
C18_Witness ==
    /\ BuildFinished /\ pc = "returned"
    /\ Len(input_batch) = 1
    /\ SeqToSet(input_batch[1]) \cap SpecialTokens # {}
    /\ sparse_emb[1].indices # << >>

\* C19: no vector build_dict returns holds a term whose score is zero: a
\* token id is among the indices only if its idf is positive, that is only if
\* the batch has more than twice as many documents as hold the token.
C19_NoZeroScoreTerm ==
    (BuildFinished /\ pc = "returned") =>
        \A d \in 1..Len(sparse_emb) :
            \A k \in 1..Len(sparse_emb[d].indices) :
                /\ ~ScoreIsZero(sparse_emb[d].values[k])
                /\ Len(input_batch) > 2 * DocFreq(input_batch, sparse_emb[d].indices[k])

----------------------------------------------------------------------------
(* Termination *)

\* C20: every call of search comes to an end, by returning or by raising,
\* also when the index never answers the query.
C20_SearchAlwaysEnds == <>SearchFinished

----------------------------------------------------------------------------
(* Records written by ingestion *)

\* the metadata keys that queries read or filter on
QueryKeys == {"filename", "page_number", "product_category", "product_id", "product_name"}

\* the chunks of the input that carry the id
ChunksWithId(id) ==
    { files[f][k] : << f, k >> \in { p \in (DOMAIN files) \X (1..MaxChunks) :
                                        /\ p[2] <= Len(files[p[1]])
                                        /\ files[p[1]][p[2]].element_id = id } }

\* C21: the metadata of every record ingestion wrote holds each key of its
\* chunk's metadata that queries read or filter on (filename, page_number,
\* product_category, product_id, product_name), with the chunk's value.
C21_RecordKeepsQueriedMetadata ==
    prog = "basic" =>
        \A id \in DOMAIN index :
            index[id].values # "old" =>
                \E chunk \in ChunksWithId(id) :
                    \A key \in QueryKeys \cap DOMAIN chunk.metadata :
                        /\ key \in DOMAIN index[id].metadata
                        /\ index[id].metadata[key] = chunk.metadata[key]

----------------------------------------------------------------------------
(* Order of the calls of a batch *)

SameBatch(e, d) == e.run = d.run /\ e.file = d.file /\ e.batch = d.batch

\* the call recorded at position n comes after a call of the kind for the same batch
Preceded(n, kind, mustBeOk) ==
    \E m \in 1..(n - 1) :
        /\ events[m].kind = kind
        /\ SameBatch(events[m], events[n])
        /\ mustBeOk => events[m].ok

\* C22: in indexing_pinecone.main the existence lookup of a batch has
\* returned before the embedding request of that batch is issued, and the
\* embedding request has returned before the upsert of that batch is issued.
C22_CheckThenEmbedThenUpsert ==
    prog = "basic" =>
        /\ \A n \in 1..Len(events) :
              /\ events[n].kind = "embed" => Preceded(n, "fetch", FALSE)
              /\ events[n].kind = "upsert" =>
                    /\ Preceded(n, "embed", TRUE)
                    /\ Preceded(n, "fetch", FALSE)
        /\ pc = "process" =>
              /\ events # << >>
              /\ events[Len(events)].kind = "fetch"
              /\ SameBatch(events[Len(events)], Event("fetch", << >>, TRUE))
        /\ (pc = "upsert" /\ vectors # << >>) =>
              /\ events[Len(events)].kind = "embed" /\ events[Len(events)].ok
              /\ SameBatch(events[Len(events)], Event("embed", << >>, TRUE))

\* the second batch of a file has been checked, embedded and upserted
C22_Witness ==
    /\ prog = "basic" /\ run = 1
    /\ \E n \in 1..Len(events) :
          events[n].kind = "upsert" /\ events[n].ok /\ events[n].batch = BatchSize

----------------------------------------------------------------------------
(* Batches without usable text *)

\* every chunk of the batch at offset i has no text left after normalisation
AllEmptyAfterNormalization(data, i) ==
    \A k \in SeqToSet(BatchItems(data, i)) : NormalizeText(data[k].text) = << >>

\* a call of the kind was recorded for the batch that is being handled
CalledForThisBatch(kind) ==
    \E n \in 1..Len(events) :
        events[n].kind = kind /\ SameBatch(events[n], Event(kind, << >>, TRUE))

\* C25: when every chunk of a batch has no text left after normalisation,
\* ingestion issues no embedding call and no upsert for the batch, adds 0 to
\* the processed count and counts every chunk of the batch as skipped.
C25_EmptyBatchCountedAsSkipped ==
    (/\ prog = "basic" /\ pc = "upsert" /\ bi = 0
     /\ AllEmptyAfterNormalization(files[fi], bi)) =>
        /\ ~CalledForThisBatch("embed")
        /\ vectors = << >>
        /\ chunks_processed = 0
        /\ chunks_skipped = Len(BatchItems(files[fi], bi))

\* the part of C25 the code does keep: no embedding call, no upsert, nothing processed
C25_EmptyBatchMakesNoCall ==
    (/\ prog = "basic" /\ pc = "upsert" /\ bi = 0
     /\ AllEmptyAfterNormalization(files[fi], bi)) =>
        /\ ~CalledForThisBatch("embed")
        /\ vectors = << >>
        /\ chunks_processed = 0

----------------------------------------------------------------------------
(* Chunks that reach the embedding call *)

\* the chunk may be embedded: not of an excluded type, text left after normalisation
Embeddable(chunk) ==
    /\ chunk.type \notin ExcludedTypes
    /\ NormalizeText(chunk.text) # << >>

\* C26: process_batch never puts into the embedding input or into the vectors
\* it returns a chunk whose type is Footer or Image or whose text is empty
\* after encoding normalisation and whitespace collapse.
C26_OnlyEmbeddableChunks ==
    prog = "basic" =>
        /\ \A n \in 1..Len(events) :
              events[n].kind \in {"embed", "upsert"} =>
                  \A k \in SeqToSet(events[n].items) :
                      Embeddable(files[events[n].file][k])
        /\ \A n \in 1..Len(vectors) : Embeddable(files[fi][vectors[n].item])

\* an embedding call was made for a full batch, and left a chunk of it out
\* that is new but of an excluded type or without text
C26_Witness ==
    /\ prog = "basic" /\ pc = "upsert" /\ vectors # << >>
    /\ Len(BatchItems(files[fi], bi)) = BatchSize
    /\ \E k \in SeqToSet(BatchItems(files[fi], bi)) :
          /\ files[fi][k].element_id \notin existing_ids
          /\ ~Embeddable(files[fi][k])
          /\ k \notin SeqToSet(VectorItems(vectors))

----------------------------------------------------------------------------
(* Records and surviving chunks *)

\* the surviving chunks of the batch that indexing_pinecone.main is handling
Survivors == ValidItems(files[fi], bi, existing_ids)

\* C27: in both ingestion variants the records process_batch returns and the
\* surviving chunks of the batch correspond one to one: the i-th record has
\* the id of the i-th surviving chunk, the dense vector (and in the hybrid
\* variant the sparse vector) of that chunk's text, and that chunk's metadata.
C27_RecordsMatchSurvivors ==
    /\ (prog = "basic" /\ pc = "upsert" /\ CalledForThisBatch("embed")
        /\ events[Len(events)].ok) =>
          /\ Len(vectors) = Len(Survivors)
          /\ \A n \in 1..Len(vectors) :
                LET chunk == files[fi][Survivors[n]]
                IN /\ vectors[n].vec.id = chunk.element_id
                   /\ vectors[n].vec.values = Embedding(NormalizeText(chunk.text))
                   /\ vectors[n].vec.metadata.text = chunk.text
                   /\ vectors[n].vec.metadata.type = chunk.type
                   /\ \A key \in DOMAIN clean_metadata(chunk) :
                         vectors[n].vec.metadata[key] = chunk.metadata[key]
    /\ (prog = "hybrid" /\ pc \in {"uw_loop", "uw_try"}) =>
          /\ Len(vectors) = Len(BatchItems(Flatten(files), bi))
          /\ \A n \in 1..Len(vectors) :
                LET chunk == Flatten(files)[bi + n]
                IN /\ vectors[n].vec.id = chunk.element_id
                   /\ vectors[n].vec.values = Embedding(prepare_chunk_text(chunk))
                   /\ vectors[n].vec.sparse_values =
                         SparseOf(HybridTexts(Flatten(files), bi), n)
                   /\ vectors[n].vec.sparse_values[2] = prepare_chunk_text(chunk)
                   /\ vectors[n].vec.metadata.text = chunk.text
                   /\ vectors[n].vec.metadata.filename = chunk.metadata.filename
                   /\ vectors[n].vec.metadata.page_number = chunk.metadata.page_number

\* the hybrid process_batch returned two records for two chunks that differ
\* in id, dense vector and sparse vector
C27_Witness ==
    /\ prog = "hybrid" /\ pc = "uw_loop"
    /\ Len(vectors) = 2
    /\ vectors[1].vec.id # vectors[2].vec.id
    /\ vectors[1].vec.values # vectors[2].vec.values
    /\ vectors[1].vec.sparse_values # vectors[2].vec.sparse_values

\* process_batch of indexing_pinecone returned two records for two surviving
\* chunks that differ in id and dense vector
C27_WitnessBasic ==
    /\ prog = "basic" /\ pc = "upsert"
    /\ Len(vectors) = 2
    /\ vectors[1].vec.id # vectors[2].vec.id
    /\ vectors[1].vec.values # vectors[2].vec.values

----------------------------------------------------------------------------
(* upsert_with_retry: size reduction, backoff and termination *)

\* max(1, size // 2), written out
HalfOrOne(size) == IF size \div 2 >= 1 THEN size \div 2 ELSE 1

\* the latest upsert call failed with a "Request size" error
SizeFailure == last_try.outcome = "size"

\* what follows a size failure: a smaller sub-batch from the same start, no
\* sleep, and a fresh count of attempts
ReducedAndRetried ==
    /\ chunk_size = HalfOrOne(last_try.size)
    /\ start_idx = last_try.start
    /\ last_try.slept = 0
    /\ pc \in {"uw_loop", "uw_try"}
    /\ pc = "uw_try" => attempt = 0

\* the sub-batch size starts at 50, never increases and never drops below 1
SizeWithinLimits ==
    /\ chunk_size \in 1..InitialChunkSize
    /\ last_try = NoTry => chunk_size = InitialChunkSize
    /\ last_try # NoTry => chunk_size <= last_try.size

\* C23: in upsert_with_retry an upsert failure with a "Request size" message,
\* for a sub-batch size above 1, is followed by the size max(1, size // 2)
\* and a new attempt from the same start position, without sleep and without
\* using up an attempt; the size starts at 50, never increases and never
\* drops below 1.
C23_SizeFailureHalves ==
    prog = "upsert" =>
        /\ SizeWithinLimits
        /\ (SizeFailure /\ last_try.size > 1) => ReducedAndRetried

\* C23 as stated: every "Request size" failure, at size 1 too, is followed by
\* the reduction and a new attempt, never by the backoff retry.
C23_Original ==
    prog = "upsert" =>
        /\ SizeWithinLimits
        /\ SizeFailure => ReducedAndRetried

\* a size failure took the sub-batch size from 3 down to the floor of 1
C23_Witness ==
    /\ prog = "upsert" /\ pc = "uw_try"
    /\ SizeFailure /\ last_try.size = 3 /\ chunk_size = 1
    /\ last_try.start > 0

\* the latest upsert call failed and was not answered by a size reduction
TransientFailure ==
    \/ last_try.outcome = "other"
    \/ last_try.outcome = "size" /\ last_try.size = 1

\* C24: a sub-batch that keeps failing with transient errors is attempted at
\* most max_retries times in a row; after the failure of attempt number n
\* (from 0) that is not the last, the code sleeps 2^n seconds and tries the
\* same sub-batch again; after the failure of the last attempt it sleeps
\* no more and raises, and the call makes no further upsert.
C24_BackoffThenRaise ==
    /\ [](prog = "upsert" =>
            /\ last_try # NoTry => last_try.attempt < max_retries
            /\ (TransientFailure /\ last_try.attempt < max_retries - 1) =>
                  /\ last_try.slept = 2 ^ last_try.attempt
                  /\ pc = "uw_try"
                  /\ attempt = last_try.attempt + 1
                  /\ start_idx = last_try.start
                  /\ chunk_size = last_try.size
            /\ (TransientFailure /\ last_try.attempt = max_retries - 1) =>
                  /\ last_try.slept = 0
                  /\ pc = "raised"
            /\ pc = "raised" =>
                  TransientFailure /\ last_try.attempt = max_retries - 1)
    /\ [][(prog = "upsert" /\ pc = "raised") =>
            (pc' = "raised" /\ index' = index /\ events' = events
             /\ last_try' = last_try)]_ivars

\* the call raised after three failed attempts in a row, the last one after
\* the sleeps of 1 and 2 seconds
C24_Witness ==
    /\ prog = "upsert" /\ pc = "raised"
    /\ max_retries = DefaultMaxRetries
    /\ last_try.outcome = "other" /\ last_try.attempt = 2
    /\ start_idx > 0

upsert_with_retry_ended == pc \in {"returned", "raised"}

\* upsert_with_retry where every step that can be taken is taken in the end
SpecUpsertLive == InitUpsert /\ [][NextUpsert]_ivars /\ WF_ivars(NextUpsert)

\* C28: for every list of vectors, every max_retries the function accepts
\* and every pattern of upsert failures, upsert_with_retry returns or raises.
C28_UpsertTerminates == prog = "upsert" => <>upsert_with_retry_ended

\* the part of C28 that holds: with max_retries of at least 1 the call ends
C28_TerminatesWithRetries ==
    (prog = "upsert" /\ max_retries >= 1) => <>upsert_with_retry_ended

----------------------------------------------------------------------------
(* Concurrent sessions and the output directory *)

\* the invocations are those of llm_processing.analyze_content_with_llm
SessionsOfLlmProcessing ==
    /\ prog = "images"
    /\ \A s \in DOMAIN sessions : sessions[s].module = "llm_processing"

\* C29: when two sessions run analyze_content_with_llm at the same time in
\* one working directory, every page image an invocation wrote through
\* process_pdf_page is still in the output directory when that invocation
\* reads it back in encode_image.
C29_WrittenImageStillExists ==
    SessionsOfLlmProcessing =>
        \A s \in DOMAIN sessions :
            /\ sessions[s].pc = "encode" => sessions[s].image_path \in output_files
            /\ sessions[s].raised_in # "encode_image"

----------------------------------------------------------------------------
(* The document filter of a search *)

\* the user selected a document, not one of the two "all" entries
SpecificDocumentSelected ==
    /\ prog = "filter" /\ pc = "searched"
    /\ sidebar.selected_display_name \notin {AllDocuments, AllFilesInCategory}

\* search was called with selected_file set to the file displayed under the name
SearchedInSelectedDocument ==
    \E f \in SeqToSet(category_to_products[sidebar.selected_category]) :
        /\ DisplayOf(f) = sidebar.selected_display_name
        /\ search_args.called
        /\ search_args.selected_file = f

\* C30: in app.main, for every selected category, "All Categories" included,
\* when the user selected a specific document, search is called with
\* selected_file equal to that document's filename.
C30_SelectedDocumentIsSearched ==
    SpecificDocumentSelected => SearchedInSelectedDocument

\* the part of C30 that holds: under a category other than "All Categories"
C30_HoldsUnderNamedCategory ==
    (SpecificDocumentSelected /\ sidebar.selected_category # AllCategories) =>
        SearchedInSelectedDocument

====
